---- MODULE Spec2Model ----
(***************************************************************************)
(* Model of the charmcraftcache-hub tooling, cli/cli:                      *)
(*   release.py, create_release.py                                         *)
(*     - GitHubRateLimitRetry (a urllib3.util.Retry subclass)              *)
(*     - main(): merge per-ref caches, archive, tag, draft release,        *)
(*       upload every archive, promote the release to latest               *)
(*   collect_bases.py, checkout.py, build.py, add_charm_branch.py          *)
(* of the stable-release gate and of two parts of the charm's common code. *)
(* The specifications share the variables:                                 *)
(*   Spec          the release publisher (tag, draft, uploads, promote)    *)
(*   SpecMerge     the merge and archive steps of release.py up to the tag *)
(*   SpecBases     collect_bases.py                                        *)
(*   SpecCheckout  the checkout of checkout.py and of build.py             *)
(*   SpecBuild     build.py: for each base the builds, then the renaming   *)
(*   SpecAdd       runs of add_charm_branch.py on one charms.json          *)
(*   SpecLabels    .github/scripts/check_labels.py                         *)
(*   SpecCos       calls on a COSRelation of common/relations/cos.py       *)
(*   SpecShell     the DBA role of common/mysql_shell/__init__.py          *)
(***************************************************************************)
EXTENDS Integers, Sequences, FiniteSets, TLC

\* ------------------------------------------------------------------ bounds
\* most rate-limit (403/429) responses the API gives during one run
MaxRetries == 2
\* most entries of charms.json
MaxCharms == 3
\* declarations in the 'bases' list of a charmcraft.yaml
MaxBases == 3

\* ------------------------------------------------------------ Python values
\* An optional integer is None or Some(n); a dict is a function whose domain
\* is the set of its keys.
None == <<>>
Some(n) == <<n>>
Truthy(x) == x # None /\ x[1] # 0
Range(s) == {s[i] : i \in DOMAIN s}
Max(a, b) == IF a >= b THEN a ELSE b
EmptyDict == <<>>

setdefault(kwargs, key, default) ==
    IF key \in DOMAIN kwargs THEN kwargs ELSE kwargs @@ (key :> default)

get(headers, key, default) ==
    IF key \in DOMAIN headers THEN headers[key] ELSE default

\* ------------------------------------------------- GitHubRateLimitRetry
\* urllib3.util.Retry.DEFAULT_ALLOWED_METHODS, in the (fixed) order in which
\* the frozenset is unpacked into the tuple
DEFAULT_ALLOWED_METHODS == <<"DELETE", "GET", "HEAD", "OPTIONS", "PUT", "TRACE">>

\* an allowed_methods that forgets PATCH
allowed_methods_without_patch == DEFAULT_ALLOWED_METHODS \o <<"POST">>

allowed_methods == DEFAULT_ALLOWED_METHODS \o <<"POST", "PATCH">>

\* a status_forcelist that also retries 503
status_forcelist_with_503 == <<403, 429, 503>>

status_forcelist == <<403, 429>>

RETRY_AFTER_STATUS_CODES == {413, 429, 503}

\* `x <= 0` on a retry count; None <= 0 is a TypeError, which also ends the
\* construction
LeqZero(x) == x # None /\ x[1] <= 0

\* urllib3.util.Retry.__init__(**kwargs): the library defaults of the
\* arguments GitHubRateLimitRetry.__init__ leaves alone
RetryInit(kwargs) ==
    setdefault(setdefault(setdefault(kwargs,
        "history", <<>>), "backoff_factor", 0), "raise_on_status", TRUE)

\* GitHubRateLimitRetry.__init__(**kwargs): [err, self]
GitHubRateLimitRetry(kwargs) ==
    LET k1 == setdefault(kwargs, "total", None)
        k2 == setdefault(k1, "connect", Some(0))
        k3 == setdefault(k2, "read", Some(0))
        k4 == setdefault(k3, "redirect", Some(0))
        k5 == setdefault(k4, "status", None)
        k6 == setdefault(k5, "other", Some(0))
        k7 == setdefault(k6, "allowed_methods", allowed_methods)
        k8 == setdefault(k7, "status_forcelist", status_forcelist)
        k9 == setdefault(k8, "respect_retry_after_header", TRUE)
    IN  IF /\ k9["total"] = None
           /\ LeqZero(k9["connect"])
           /\ LeqZero(k9["read"])
           /\ LeqZero(k9["redirect"])
           /\ k9["status"] = None
           /\ LeqZero(k9["other"])
           /\ k9["allowed_methods"] = allowed_methods
           /\ k9["status_forcelist"] = status_forcelist
           /\ k9["respect_retry_after_header"] = TRUE
        THEN [err |-> "", self |-> RetryInit(k9)]
        ELSE [err |-> "AssertionError", self |-> k9]

\* Retry.new(**kw): type(self)(**params), params = the fields of self
\* overridden by kw
new(self, kw) == GitHubRateLimitRetry(kw @@ self)

\* Retry._is_method_retryable
is_method_retryable(self, method) ==
    ~(self["allowed_methods"] # <<>> /\ method \notin Range(self["allowed_methods"]))

\* Retry.is_retry(method, status_code, has_retry_after)
is_retry(self, method, status_code, has_retry_after) ==
    IF ~is_method_retryable(self, method) THEN FALSE
    ELSE IF /\ self["status_forcelist"] # <<>>
            /\ status_code \in Range(self["status_forcelist"]) THEN TRUE
    ELSE /\ Truthy(self["total"])
         /\ self["respect_retry_after_header"]
         /\ has_retry_after
         /\ status_code \in RETRY_AFTER_STATUS_CODES

\* Retry.is_exhausted
is_exhausted(self) ==
    LET retry_counts == {c \in {self["total"], self["connect"], self["read"],
                                self["redirect"], self["status"], self["other"]} :
                            Truthy(c)}
    IN  retry_counts # {} /\ \E c \in retry_counts : c[1] < 0

Dec(x) == IF x = None THEN None ELSE Some(x[1] - 1)

\* Retry.increment(method, response=, error=): [err, self].  error is "" when
\* a response (with `status`) was received, else "connect" or "read".
increment(self, method, status, error) ==
    IF error = "read" /\ ~is_method_retryable(self, method)
    THEN [err |-> "ReadTimeoutError", self |-> self]
    ELSE
    LET counters ==
            [total |-> Dec(self["total"]),
             connect |-> IF error = "connect" THEN Dec(self["connect"])
                         ELSE self["connect"],
             read |-> IF error = "read" THEN Dec(self["read"]) ELSE self["read"],
             redirect |-> self["redirect"],
             status |-> IF error = "" /\ status # 0 THEN Dec(self["status"])
                        ELSE self["status"],
             other |-> self["other"],
             history |-> Append(self["history"],
                                [method |-> method, error |-> error, status |-> status])]
        new_retry == new(self, counters)
    IN  IF new_retry.err # "" THEN new_retry
        ELSE IF is_exhausted(new_retry.self)
             THEN [err |-> "MaxRetryError", self |-> new_retry.self]
             ELSE new_retry

\* ------------------------------------------------------------- sleeping
\* Retry.get_retry_after / parse_retry_after on a Retry-After given in
\* seconds: the number, never negative
get_retry_after(response) ==
    IF "retry-after" \in DOMAIN response.headers
    THEN Some(Max(response.headers["retry-after"], 0))
    ELSE None

\* Retry.sleep_for_retry (the parent's): [err, slept, sleeps]
Retry_sleep_for_retry(response) ==
    LET retry_after == get_retry_after(response)
    IN  IF Truthy(retry_after)
        THEN [err |-> "", slept |-> TRUE,
              sleeps |-> <<[branch |-> "retry-after", seconds |-> retry_after[1]]>>]
        ELSE [err |-> "", slept |-> FALSE, sleeps |-> <<>>]

\* seconds of the fixed fallback sleep
FallbackSeconds == 60

\* a sleep_for_retry that looks at Retry-After before the quota headers
sleep_for_retry_retry_after_first(file, response, now) ==
    IF file = "create_release" /\ "x-ratelimit-remaining" \notin DOMAIN response.headers
    THEN [err |-> "KeyError", slept |-> FALSE, sleeps |-> <<>>]
    ELSE IF Retry_sleep_for_retry(response).slept
    THEN Retry_sleep_for_retry(response)
    ELSE IF /\ get(response.headers, "x-ratelimit-remaining", -1) = 0
            /\ "x-ratelimit-reset" \in DOMAIN response.headers
    THEN [err |-> "", slept |-> TRUE,
          sleeps |-> <<[branch |-> "reset",
                        seconds |-> Max(response.headers["x-ratelimit-reset"] - now, 0)]>>]
    ELSE [err |-> "", slept |-> TRUE,
          sleeps |-> <<[branch |-> "fallback", seconds |-> FallbackSeconds]>>]

\* a sleep_for_retry that does not return after the Retry-After sleep and
\* goes on to the fallback sleep
sleep_for_retry_falls_through(file, response, now) ==
    IF file = "create_release" /\ "x-ratelimit-remaining" \notin DOMAIN response.headers
    THEN [err |-> "KeyError", slept |-> FALSE, sleeps |-> <<>>]
    ELSE IF /\ get(response.headers, "x-ratelimit-remaining", -1) = 0
            /\ "x-ratelimit-reset" \in DOMAIN response.headers
    THEN [err |-> "", slept |-> TRUE,
          sleeps |-> <<[branch |-> "reset",
                        seconds |-> Max(response.headers["x-ratelimit-reset"] - now, 0)]>>]
    ELSE [err |-> "", slept |-> TRUE,
          sleeps |-> Retry_sleep_for_retry(response).sleeps
                     \o <<[branch |-> "fallback", seconds |-> FallbackSeconds]>>]

\* a sleep_for_retry that takes the time to the reset as it is
sleep_for_retry_unclamped(file, response, now) ==
    IF file = "create_release" /\ "x-ratelimit-remaining" \notin DOMAIN response.headers
    THEN [err |-> "KeyError", slept |-> FALSE, sleeps |-> <<>>]
    ELSE IF /\ get(response.headers, "x-ratelimit-remaining", -1) = 0
            /\ "x-ratelimit-reset" \in DOMAIN response.headers
    THEN [err |-> "", slept |-> TRUE,
          sleeps |-> <<[branch |-> "reset",
                        seconds |-> response.headers["x-ratelimit-reset"] - now]>>]
    ELSE IF Retry_sleep_for_retry(response).slept
    THEN Retry_sleep_for_retry(response)
    ELSE [err |-> "", slept |-> TRUE,
          sleeps |-> <<[branch |-> "fallback", seconds |-> FallbackSeconds]>>]

\* GitHubRateLimitRetry.sleep_for_retry(response) at time `now`, in file
\* `file` ("release" or "create_release"): [err, slept, sleeps].  A header
\* that is present is a non-empty string, hence truthy, whatever its number.
sleep_for_retry(file, response, now) ==
    IF file = "create_release" /\ "x-ratelimit-remaining" \notin DOMAIN response.headers
    THEN [err |-> "KeyError", slept |-> FALSE, sleeps |-> <<>>]
    ELSE IF /\ get(response.headers, "x-ratelimit-remaining", -1) = 0
            /\ "x-ratelimit-reset" \in DOMAIN response.headers
    THEN [err |-> "", slept |-> TRUE,
          sleeps |-> <<[branch |-> "reset",
                        seconds |-> Max(response.headers["x-ratelimit-reset"] - now, 0)]>>]
    ELSE IF Retry_sleep_for_retry(response).slept
    THEN Retry_sleep_for_retry(response)
    ELSE [err |-> "", slept |-> TRUE,
          sleeps |-> <<[branch |-> "fallback", seconds |-> FallbackSeconds]>>]

\* Retry._sleep_backoff: backoff_factor * 2 ** (consecutive errors - 1),
\* nothing for fewer than two errors or a backoff of 0
sleep_backoff(self) ==
    LET n == Len(self["history"])
        backoff == IF n <= 1 THEN 0 ELSE self["backoff_factor"] * (2 ^ (n - 1))
    IN  IF backoff <= 0 THEN <<>>
        ELSE <<[branch |-> "backoff", seconds |-> backoff]>>

\* Retry.sleep(response): [err, sleeps], the sleeps in the order they happen
sleep(self, file, response, now) ==
    IF self["respect_retry_after_header"]
    THEN LET r == sleep_for_retry(file, response, now)
         IN  IF r.err # "" \/ r.slept
             THEN [err |-> r.err, sleeps |-> r.sleeps]
             ELSE [err |-> "", sleeps |-> r.sleeps \o sleep_backoff(self)]
    ELSE [err |-> "", sleeps |-> sleep_backoff(self)]

RECURSIVE SumSeconds(_)
SumSeconds(sleeps) ==
    IF sleeps = <<>> THEN 0 ELSE Head(sleeps).seconds + SumSeconds(Tail(sleeps))

\* ------------------------------------------------------------ the state
VARIABLES
    module,       \* which main() runs: "release" or "create_release"
    pc,           \* main()'s position
    error,        \* the exception that ended the run, "" while none
    tag,          \* the git tag: "none", "local" (created) or "pushed"
    release_archives, \* names of the files in the release archive directory
    todo,         \* archive files the upload loop has not reached yet
    path,         \* the archive file being uploaded, 0 outside the loop
    release,      \* the release on the API side: [exists, draft, latest]
    assets,       \* names of the release's uploaded assets
    max_retries,  \* the adapter's GitHubRateLimitRetry
    call,         \* urlopen: "idle", "sleep" (about to sleep), "retry"
    retries,      \* the Retry object of the current (or last) request
    response,     \* the response urlopen is about to sleep on, or NoResponse
    sleeps,       \* the sleeps made for the current (or last) request
    calls,        \* the requests that returned a response: [kind, name, status]
    limited,      \* number of rate-limit responses so far
    clock,        \* seconds since the run began
    charm_refs,   \* charms.json: the list of CharmRef
    built,        \* bases/ as the builds left it (never changes)
    bases,        \* ~/charmcraftcache-hub-ci/bases/
    combined_bases, \* ~/charmcraftcache-hub-ci/combined_bases/
    groups,       \* merge groups still to process (charm_indexes.items())
    archived,     \* release_archives/: archive name -> [base, files]
    charmcraft_yaml, \* collect_bases: the 'bases' list of charmcraft.yaml
    resolved,     \* collect_bases: the Base objects made so far
    output,       \* collect_bases: what was written to GITHUB_OUTPUT, None before
    charm,        \* checkout: the CharmRef (build.py: the Charm) to check out
    sparse,       \* checkout: the sparse argument
    commands,     \* checkout: the git commands still to run
    ran,          \* checkout: the git commands run: [command, failed, stderr]
    reports,      \* checkout: the not-found failures reported (raised or printed)
    returned,     \* checkout: the charm directory handed to the caller, None before
    ubuntu_base,  \* build.py: the UbuntuBase of the pass of `for base in BASES`
    pip_wheels,   \* build.py: the .whl files under pip_cache/pip/wheels: [parent, name]
    release_artifacts, \* build.py: ~/charmcraftcache-hub-ci/release/: name -> the wheel moved there
    charms,       \* build.py: the charms `for charm_ in charms` has not finished
    requirements, \* build.py: the requirements file selected for the charm, None before
    finished,     \* build.py: the charms `for charm_ in charms` is through with for this base
    built_for,    \* build.py: for each .whl file of the cache, the series of the base
                  \* whose pip install built it
    subprocesses, \* build.py, release.py, create_release.py, add_charm_branch.py:
                  \* the commands main() ran with subprocess.run, in order
    issue,        \* add_charm_branch: the issue of the run (author's membership
                  \* status, body, whether the repository exists)
    charms_json,  \* add_charm_branch: the list in charms.json
    github_output, \* add_charm_branch: what the run wrote to GITHUB_OUTPUT, None if nothing
    issue_data,   \* check_labels: the issue fetch_issue returned, None before
    posted,       \* check_labels: the comments sent to the issue, in order
    missing,      \* check_labels: the labels the ValueError lists
    monitoring_password, \* cos: the value of "monitoring-password" in the unit's secrets
    cos_calls,    \* cos: the calls made on the relation, with what they returned
    database,     \* mysql_shell: the database the role is built for, None before
    mysql_roles,  \* mysql_shell: the roles of the MySQL server
    role_name     \* mysql_shell: what _build_application_database_dba_role returned

pubVars == <<module, pc, error, tag, release_archives, todo, path, release, assets,
             max_retries, call, retries, response, sleeps, calls, limited, clock>>
mergeVars == <<charm_refs, built, bases, combined_bases, groups, archived>>
\* the publishing steps' own state
publishVars == <<tag, release_archives, todo, path, release, assets,
                 max_retries, call, retries, response, sleeps, calls, limited, clock>>
basesVars == <<charmcraft_yaml, resolved, output>>
\* the state of the other programs of cli/
checkoutVars == <<charm, sparse, commands, ran, reports, returned>>
buildVars == <<ubuntu_base, pip_wheels, release_artifacts, charms, requirements,
               subprocesses, finished, built_for>>
addVars == <<issue, charms_json, github_output>>
\* the state of the stable-release gate and of the charm's common code
labelVars == <<issue_data, posted, missing>>
cosVars == <<monitoring_password, cos_calls>>
shellVars == <<database, mysql_roles, role_name>>
commonVars == <<labelVars, cosVars, shellVars>>
toolVars == <<basesVars, checkoutVars, buildVars, addVars, commonVars>>
vars == <<pubVars, mergeVars, toolVars>>

NoResponse == [status |-> 0, headers |-> EmptyDict]

\* ---------------------------------------------------------------- the tag
\* f"build-{int(time.time())}-v4" (release.py), "...-v3" (create_release.py)
release_name(file, now) ==
    <<"build-", now, IF file = "release" THEN "-v4" ELSE "-v3">>

\* ["git", "tag", release_name]
TagCommand(name_) == <<"git", "tag", name_>>

\* ["git", "push", "origin", release_name]
PushCommand(name_) == <<"git", "push", "origin", name_>>

\* git tag makes an annotated tag (a tag object) only with one of -a, -s,
\* -u, -m, -F before the name; without them the tag is lightweight
annotated(command) ==
    \E i \in 3..(Len(command) - 1) :
        command[i] \in {"-a", "--annotate", "-s", "--sign", "-u", "-m", "-F"}

\* release_name once main() has made it: the name git tag was given
TagName == IF subprocesses = <<>> THEN None ELSE Some(subprocesses[1][Len(subprocesses[1])])

\* ------------------------------------------------------ the API's answers
Statuses == {200, 403, 429, 503}
RateLimitStatuses == {403, 429}
TransportErrors == {"connect", "read"}

Opt(key, value) == IF value = None THEN EmptyDict ELSE (key :> value[1])

\* the rate-limit headers a response can carry at time `now`
HeaderSets(now) ==
    { Opt("x-ratelimit-remaining", remaining) @@ Opt("x-ratelimit-reset", reset)
        @@ Opt("retry-after", retry_after) :
        remaining \in {None, Some(0), Some(1)},
        reset \in {None, Some(now - 3), Some(now + 10)},
        retry_after \in {None, Some(0), Some(2), Some(5)} }

\* --------------------------------------------------------------- main()
\* the three requests main() makes
CreateRequest ==
    [kind |-> "create", method |-> "POST", name |-> 0,
     draft |-> TRUE, make_latest |-> FALSE,
     tag_name |-> TagName, target_commitish |-> Some("GITHUB_SHA")]

UploadRequest(name) ==
    [kind |-> "upload", method |-> "POST", name |-> name,
     draft |-> TRUE, make_latest |-> FALSE]

PromoteRequest ==
    [kind |-> "promote", method |-> "PATCH", name |-> 0,
     draft |-> FALSE, make_latest |-> TRUE]

Request ==
    CASE pc = "create" -> CreateRequest
      [] pc = "upload" -> UploadRequest(path)
      [] pc = "promote" -> PromoteRequest

\* what a request that succeeds does to the release on the API side
ApplyRelease(request, rel) ==
    IF request.kind = "upload" THEN rel
    ELSE IF request.kind = "create"
    THEN [exists |-> TRUE, draft |-> request.draft, latest |-> request.make_latest,
          tag_name |-> request.tag_name, target_commitish |-> request.target_commitish]
    ELSE [rel EXCEPT !.exists = TRUE, !.draft = request.draft,
                     !.latest = request.make_latest]

ApplyAssets(request, uploaded) ==
    IF request.kind = "upload" THEN uploaded \cup {request.name} ELSE uploaded

\* a raise_for_status that lets server errors through
raise_for_status_client_only(status) == status >= 400 /\ status < 500

\* response.raise_for_status()
raise_for_status(status) == status >= 400

\* a main() that promotes as soon as one upload is through
AfterRequest_promote_early(kind, left) ==
    IF kind = "promote" THEN "done"
    ELSE IF left = {} \/ kind = "upload" THEN "promote"
    ELSE "upload"

\* where main() goes after a request whose response passed raise_for_status
AfterRequest(kind, left) ==
    IF kind = "promote" THEN "done"
    ELSE IF left = {} THEN "promote"
    ELSE "upload"

\* an exception that is reported and leaves main() at the tag step
Abort_goes_on(exception) ==
    /\ pc' = "tag"
    /\ error' = exception

\* an uncaught exception ends main()
Abort(exception) ==
    /\ pc' = "aborted"
    /\ error' = exception

\* subprocess.run(["git", "tag", ...]), subprocess.run(["git", "push", ...]),
\* then the session with its retry policy
GitTag ==
    /\ pc = "tag"
    /\ \E outcome \in {"tag fails", "push fails", "pushed"} :
        LET policy == GitHubRateLimitRetry(EmptyDict)
            release_name_ == release_name(module, clock)
        IN  /\ tag' = CASE outcome = "tag fails" -> "none"
                        [] outcome = "push fails" -> "local"
                        [] OTHER -> "pushed"
            /\ subprocesses' =
                    IF outcome = "tag fails" THEN <<TagCommand(release_name_)>>
                    ELSE <<TagCommand(release_name_), PushCommand(release_name_)>>
            /\ IF outcome # "pushed" THEN
                    /\ Abort("CalledProcessError")
                    /\ UNCHANGED <<max_retries, retries>>
               ELSE IF policy.err # "" THEN
                    /\ Abort(policy.err)
                    /\ UNCHANGED <<max_retries, retries>>
               ELSE /\ pc' = "create"
                    /\ max_retries' = policy.self
                    /\ retries' = policy.self
                    /\ UNCHANGED error
    /\ UNCHANGED <<module, release_archives, todo, path, release, assets, call,
                   response, sleeps, calls, limited, clock>>
    /\ UNCHANGED mergeVars
    /\ UNCHANGED <<basesVars, checkoutVars, addVars, commonVars, ubuntu_base,
                   pip_wheels, release_artifacts,
                   charms, requirements, finished, built_for>>

\* the files the upload loop has still to reach: release_archives.iterdir()
\* when the loop starts (after the draft is created), then what is left
Left(kind) == IF kind = "create" THEN release_archives ELSE todo

\* main() receives the response of its request: raise_for_status, then on to
\* the next request
Returned(request, status) ==
    /\ call' = "idle"
    /\ calls' = Append(calls, [kind |-> request.kind, name |-> request.name,
                               status |-> status])
    /\ IF raise_for_status(status) THEN
            /\ Abort("HTTPError")
            /\ UNCHANGED <<todo, path>>
       ELSE /\ pc' = AfterRequest(request.kind, Left(request.kind))
            /\ UNCHANGED error
            /\ IF AfterRequest(request.kind, Left(request.kind)) = "upload"
               THEN \E next \in Left(request.kind) :
                        path' = next /\ todo' = Left(request.kind) \ {next}
               ELSE path' = 0 /\ todo' = {}

\* the Retry object and the sleeps an attempt starts from: session.post and
\* session.patch hand the adapter's max_retries to urlopen, which hands the
\* incremented object to itself
Policy == IF call = "idle" THEN max_retries ELSE retries
Slept == IF call = "idle" THEN <<>> ELSE sleeps

\* One pass of urlopen for the current request: the API answers with a
\* status and headers; a success takes effect on the API side; is_retry
\* decides between returning the response and incrementing the policy.
Attempt ==
    /\ pc \in {"create", "upload", "promote"}
    /\ call \in {"idle", "retry"}
    /\ \E status \in Statuses, headers \in HeaderSets(clock) :
        LET request == Request
            incremented == increment(Policy, request.method, status, "")
        IN  /\ status \in RateLimitStatuses => limited < MaxRetries
            /\ limited' = IF status \in RateLimitStatuses THEN limited + 1 ELSE limited
            /\ release' = IF status = 200 THEN ApplyRelease(request, release) ELSE release
            /\ assets' = IF status = 200 THEN ApplyAssets(request, assets) ELSE assets
            /\ sleeps' = Slept
            /\ IF ~is_retry(Policy, request.method, status, "retry-after" \in DOMAIN headers)
               THEN /\ Returned(request, status)
                    /\ retries' = Policy
                    /\ UNCHANGED response
               ELSE IF incremented.err # "" THEN
                    /\ Abort(incremented.err)
                    /\ retries' = incremented.self
                    /\ call' = "idle"
                    /\ UNCHANGED <<todo, path, response, calls>>
               ELSE /\ retries' = incremented.self
                    /\ response' = [status |-> status, headers |-> headers]
                    /\ call' = "sleep"
                    /\ UNCHANGED <<pc, error, todo, path, calls>>
    /\ UNCHANGED <<module, tag, release_archives, max_retries, clock>>
    /\ UNCHANGED mergeVars
    /\ UNCHANGED toolVars

\* The connection fails or the read times out: increment, which exhausts
\* the policy (connect and read are 0)
TransportError ==
    /\ pc \in {"create", "upload", "promote"}
    /\ call \in {"idle", "retry"}
    /\ \E failure \in TransportErrors :
        LET request == Request
            incremented == increment(Policy, request.method, 0, failure)
        IN  /\ retries' = incremented.self
            /\ sleeps' = Slept
            /\ IF incremented.err # "" THEN
                    /\ Abort(incremented.err)
                    /\ call' = "idle"
               ELSE /\ call' = "retry"
                    /\ UNCHANGED <<pc, error>>
    /\ UNCHANGED <<module, tag, release_archives, todo, path, release, assets,
                   max_retries, response, calls, limited, clock>>
    /\ UNCHANGED mergeVars
    /\ UNCHANGED toolVars

\* retries.sleep(response), then urlopen calls itself for the next attempt
Sleep ==
    /\ pc \in {"create", "upload", "promote"}
    /\ call = "sleep"
    /\ LET slept == sleep(retries, module, response, clock)
       IN  /\ sleeps' = sleeps \o slept.sleeps
           /\ clock' = clock + SumSeconds(slept.sleeps)
           /\ response' = NoResponse
           /\ IF slept.err # ""
              THEN Abort(slept.err) /\ call' = "idle"
              ELSE call' = "retry" /\ UNCHANGED <<pc, error>>
    /\ UNCHANGED <<module, tag, release_archives, todo, path, release, assets,
                   max_retries, retries, calls, limited>>
    /\ UNCHANGED mergeVars
    /\ UNCHANGED toolVars

Modules == {"release", "create_release"}

\* the contents the release archive directory can have when the publisher
\* starts: no file, one file, two files
ArchiveDirectories == {{}, {1}, {1, 2}}

\* collect_bases.py is not running
BasesIdle ==
    /\ charmcraft_yaml = <<>>
    /\ resolved = <<>>
    /\ output = None

\* no checkout is running
CheckoutIdle ==
    /\ charm = EmptyDict
    /\ sparse = TRUE
    /\ commands = <<>>
    /\ ran = <<>>
    /\ reports = <<>>
    /\ returned = None

\* build.py's rename pass is not running
BuildIdle ==
    /\ ubuntu_base = EmptyDict
    /\ pip_wheels = {}
    /\ release_artifacts = EmptyDict
    /\ charms = <<>>
    /\ requirements = None
    /\ subprocesses = <<>>
    /\ finished = <<>>
    /\ built_for = EmptyDict

\* add_charm_branch.py is not running
AddIdle ==
    /\ issue = EmptyDict
    /\ charms_json = <<>>
    /\ github_output = None

\* check_labels.py is not running
LabelsIdle ==
    /\ issue_data = None
    /\ posted = <<>>
    /\ missing = <<>>

\* no call is made on the cos relation
CosIdle ==
    /\ monitoring_password = None
    /\ cos_calls = <<>>

\* no role is built
ShellIdle ==
    /\ database = None
    /\ mysql_roles = {}
    /\ role_name = None

CommonIdle == LabelsIdle /\ CosIdle /\ ShellIdle

ToolsIdle == BasesIdle /\ CheckoutIdle /\ BuildIdle /\ AddIdle /\ CommonIdle

MergeIdle ==
    /\ charm_refs = <<>>
    /\ built = EmptyDict
    /\ bases = EmptyDict
    /\ combined_bases = EmptyDict
    /\ groups = <<>>
    /\ archived = EmptyDict

PublishStart ==
    /\ error = ""
    /\ tag = "none"
    /\ todo = {}
    /\ path = 0
    /\ release = [exists |-> FALSE, draft |-> FALSE, latest |-> FALSE,
                  tag_name |-> None, target_commitish |-> None]
    /\ assets = {}
    /\ max_retries = EmptyDict
    /\ call = "idle"
    /\ retries = EmptyDict
    /\ response = NoResponse
    /\ sleeps = <<>>
    /\ calls = <<>>
    /\ limited = 0
    /\ clock = 0

\* The publisher starts at the tag step with any files in the archive
\* directory
Init ==
    /\ module \in Modules
    /\ pc = "tag"
    /\ release_archives \in ArchiveDirectories
    /\ PublishStart
    /\ MergeIdle
    /\ ToolsIdle

Next == GitTag \/ Attempt \/ TransportError \/ Sleep

Spec == Init /\ [][Next]_vars

\* ------------------------------------------------- main(): merge, archive
\* Strings that the code takes apart are sequences of characters.
replace(string, old, with) ==
    [i \in DOMAIN string |-> IF string[i] = old THEN with ELSE string[i]]

\* a _Charm that keeps the ref
from_charm_ref_with_ref(charm_ref) ==
    [github_repository |-> charm_ref.github_repository,
     ref |-> charm_ref.ref,
     relative_path_to_charmcraft_yaml |-> charm_ref.relative_path_to_charmcraft_yaml]

\* _Charm.from_charm_ref
from_charm_ref(charm_ref) ==
    [github_repository |-> charm_ref.github_repository,
     relative_path_to_charmcraft_yaml |-> charm_ref.relative_path_to_charmcraft_yaml]

\* charm_indexes.setdefault(charm_, []).append(index) on the dict kept as
\* the sequence of its items, in insertion order
setdefault_append(items, charm_, index) ==
    IF \E k \in DOMAIN items : items[k].charm_ = charm_
    THEN [k \in DOMAIN items |->
            IF items[k].charm_ = charm_
            THEN [items[k] EXCEPT !.indexes = Append(@, index)]
            ELSE items[k]]
    ELSE Append(items, [charm_ |-> charm_, indexes |-> <<index>>])

\* the loop over enumerate(charm_refs) that fills charm_indexes; indexes
\* count from 0
RECURSIVE charm_indexes(_, _)
charm_indexes(refs, n) ==
    IF n = 0 THEN <<>>
    ELSE setdefault_append(charm_indexes(refs, n - 1), from_charm_ref(refs[n]), n - 1)

\* min(indexes)
min(indexes) == CHOOSE m \in Range(indexes) : \A i \in Range(indexes) : m <= i

\* a loop that forgets to reverse
reversed_not(indexes) == indexes

\* reversed(indexes)
reversed(indexes) == [i \in DOMAIN indexes |-> indexes[Len(indexes) + 1 - i]]

\* A directory under bases/ or combined_bases/, "charm-<index>-base-<base>",
\* is named by [index, base].
\* bases.glob(f"charm-{index}-*")
glob(directory, index) == {d \in DOMAIN directory : d.index = index}

\* the indexes in the order the two outer loops visit them, each with the
\* lowest index of its group
RECURSIVE Visits(_)
Visits(items) ==
    IF items = <<>> THEN <<>>
    ELSE [i \in DOMAIN Head(items).indexes |->
            [index |-> reversed(Head(items).indexes)[i],
             lowest |-> min(Head(items).indexes)]]
         \o Visits(Tail(items))

\* the visits whose glob is not empty; a directory is removed once copied,
\* so the first of them is the one the loops are at
Pending(items, directory) ==
    SelectSeq(Visits(items), LAMBDA v : glob(directory, v.index) # {})

\* a copy that removes the destination first: the files of src only
copytree_replaces(src, directory, dst) ==
    [d \in DOMAIN directory \cup {dst} |-> IF d = dst THEN src ELSE directory[d]]

\* shutil.copytree(src, dst, dirs_exist_ok=True): the files of src, and the
\* files dst already held under other names
copytree(src, directory, dst) ==
    LET old == IF dst \in DOMAIN directory THEN directory[dst] ELSE EmptyDict
        merged == [f \in DOMAIN src \cup DOMAIN old |->
                      IF f \in DOMAIN src THEN src[f] ELSE old[f]]
    IN  [d \in DOMAIN directory \cup {dst} |-> IF d = dst THEN merged ELSE directory[d]]

\* shutil.rmtree(base)
rmtree(directory, base) == [d \in DOMAIN directory \ {base} |-> directory[d]]

\* a copy that keeps the per-index name
combined_name_per_index(base, lowest) == base

\* base.name.replace(f"charm-{index}-", f"charm-{min(indexes)}-")
combined_name(base, lowest) == [index |-> lowest, base |-> base.base]

Token1 == <<"_", "c", "c", "c", "h", "u", "b", "1", "_">>
Token2 == <<"_", "c", "c", "c", "h", "u", "b", "2", "_">>

\* archive_name of a combined directory
archive_name(refs, base) ==
    LET charm_ref == refs[base.index + 1]
    IN  replace(charm_ref.github_repository \o Token1
                  \o charm_ref.relative_path_to_charmcraft_yaml \o Token2 \o base.base,
                "/", "_")

\* the loop over enumerate(charm_refs)
Group ==
    /\ pc = "group"
    /\ groups' = charm_indexes(charm_refs, Len(charm_refs))
    /\ pc' = "merge"
    /\ UNCHANGED <<charm_refs, built, bases, combined_bases, archived>>
    /\ UNCHANGED <<module, error, tag, release_archives, todo, path, release, assets,
                   max_retries, call, retries, response, sleeps, calls, limited, clock>>
    /\ UNCHANGED toolVars

\* an assertion that passes with more than one subdirectory
subdirectories_accepted_not_empty(base_subdirectories) ==
    Cardinality(base_subdirectories) >= 1

\* assert len(base_subdirectories) == 1
subdirectories_accepted(base_subdirectories) == Cardinality(base_subdirectories) = 1

\* one pass of the innermost loop: copy the only subdirectory of a per-index
\* base directory into the group's combined directory, remove the directory
MergeBase ==
    /\ pc = "merge"
    /\ Pending(groups, bases) # <<>>
    /\ LET visit == Head(Pending(groups, bases))
       IN  \E base \in glob(bases, visit.index) :
            LET base_subdirectories == DOMAIN bases[base]
            IN  IF ~subdirectories_accepted(base_subdirectories) THEN
                    /\ Abort("AssertionError")
                    /\ UNCHANGED <<bases, combined_bases>>
                ELSE
                    /\ combined_bases' =
                          copytree(bases[base][CHOOSE x \in base_subdirectories : TRUE],
                                   combined_bases, combined_name(base, visit.lowest))
                    /\ bases' = rmtree(bases, base)
                    /\ UNCHANGED <<pc, error>>
    /\ UNCHANGED <<charm_refs, built, groups, archived>>
    /\ UNCHANGED <<module, tag, release_archives, todo, path, release, assets,
                   max_retries, call, retries, response, sleeps, calls, limited, clock>>
    /\ UNCHANGED toolVars

\* an rmdir that leaves what it finds
rmdir_ignore_errors(directory) == ""

\* bases.rmdir(): the exception raised, "" when the directory is empty
rmdir(directory) == IF DOMAIN directory # {} THEN "OSError" ELSE ""

\* bases.rmdir() once the loops are over: the directory must be empty
RmdirBases ==
    /\ pc = "merge"
    /\ Pending(groups, bases) = <<>>
    /\ IF rmdir(bases) # "" THEN Abort(rmdir(bases))
       ELSE IF DOMAIN combined_bases = {} THEN pc' = "tag" /\ UNCHANGED error
       ELSE pc' = "archive" /\ UNCHANGED error
    /\ UNCHANGED mergeVars
    /\ UNCHANGED <<module, tag, release_archives, todo, path, release, assets,
                   max_retries, call, retries, response, sleeps, calls, limited, clock>>
    /\ UNCHANGED toolVars

\* the combined directories the archive loop has not reached
Unarchived == {d \in DOMAIN combined_bases : \A k \in DOMAIN archived : archived[k].base # d}

\* a check that never finds the file
exists_never(files, name) == FALSE

\* expected_archive_path.exists()
exists(files, name) == name \in files

\* shutil.make_archive(base_name, format="gztar", root_dir=base): the
\* archive directory with the file written, over any file of that name
make_archive(archives, name, base, files) ==
    (name :> [base |-> base, files |-> files]) @@ archives

\* one pass of the loop over combined_bases.iterdir(): name the archive,
\* check that no file has the name, write it
ArchiveBase ==
    /\ pc = "archive"
    /\ \E base \in Unarchived :
        LET name == archive_name(charm_refs, base)
        IN  IF exists(release_archives, name) THEN
                /\ Abort("AssertionError")
                /\ UNCHANGED <<archived, release_archives>>
            ELSE
                /\ archived' = make_archive(archived, name, base, combined_bases[base])
                /\ release_archives' = release_archives \cup {name}
                /\ pc' = IF Unarchived = {base} THEN "tag" ELSE "archive"
                /\ UNCHANGED error
    /\ UNCHANGED <<charm_refs, built, bases, combined_bases, groups>>
    /\ UNCHANGED <<module, tag, todo, path, release, assets,
                   max_retries, call, retries, response, sleeps, calls, limited, clock>>
    /\ UNCHANGED toolVars

\* ---------------------------------------------------- inputs of the merge
CharmRef(github_repository, ref, relative_path_to_charmcraft_yaml) ==
    [github_repository |-> github_repository, ref |-> ref,
     relative_path_to_charmcraft_yaml |-> relative_path_to_charmcraft_yaml]

\* the entries charms.json is drawn from: two that differ in ref only, a
\* third that differs from the first in repository only, a fourth that
\* differs from the third in the manifest path only, "c_d" for "c/d"
CharmPool ==
    {CharmRef(<<"o", "/", "a">>, "main", <<"c", "/", "d">>),
     CharmRef(<<"o", "/", "a">>, "dev", <<"c", "/", "d">>),
     CharmRef(<<"o", "/", "b">>, "main", <<"c", "/", "d">>),
     CharmRef(<<"o", "/", "b">>, "main", <<"c", "_", "d">>)}

\* what the build of one entry left under bases/: for each base built, the
\* names of the wheels
BuildPool ==
    {(<<"j">> :> {"w1"}),
     (<<"j">> :> {"w2"}) @@ (<<"n">> :> {"w1"})}

\* the charmcraft base directory each per-index directory holds
BaseSubdirectory == "charmcraft-buildd-base-v7"

\* bases/ after the builds: a wheel's content is the index it was built for
BasesOf(builds) ==
    LET names == UNION {{[index |-> i - 1, base |-> b] : b \in DOMAIN builds[i]} :
                            i \in DOMAIN builds}
    IN  [d \in names |->
            (BaseSubdirectory :> [w \in builds[d.index + 1][d.base] |-> d.index])]

\* what bases/ can hold besides the builds of the entries of charms.json:
\* nothing, or the build of an index that charms.json (of n entries) has not
Leftovers(n) ==
    {EmptyDict,
     [index |-> n, base |-> <<"j">>] :> (BaseSubdirectory :> ("w1" :> n))}

\* what a per-index directory can hold: the one charmcraft base directory,
\* nothing, or a second directory beside it
Shapes == {"one", "none", "two"}

\* bases/ with the directory of the first entry's base "j" in the shape
Shaped(tree, shape) ==
    LET first == [index |-> 0, base |-> <<"j">>]
    IN  CASE shape = "one" -> tree
          [] shape = "none" -> [tree EXCEPT ![first] = EmptyDict]
          [] shape = "two" ->
                [tree EXCEPT ![first] = @ @@ ("charmcraft-buildd-base-v8" :> ("w3" :> 0))]

InitMerge ==
    /\ module = "release"
    /\ pc = "group"
    /\ release_archives = {}
    /\ PublishStart
    /\ \E n \in 1..MaxCharms :
        \E refs \in [1..n -> CharmPool], builds \in [1..n -> BuildPool],
           leftover \in Leftovers(n), shape \in Shapes :
            /\ charm_refs = refs
            /\ built = Shaped(BasesOf(builds), shape) @@ leftover
            /\ bases = built
    /\ combined_bases = EmptyDict
    /\ groups = <<>>
    /\ archived = EmptyDict
    /\ ToolsIdle

NextMerge == Group \/ MergeBase \/ RmdirBases \/ ArchiveBase \/ GitTag

SpecMerge == InitMerge /\ [][NextMerge]_vars

\* ------------------------------------------------------- collect_bases.py
\* class _Architecture(str, enum.Enum): the values
X64 == <<"a", "m", "d", "6", "4">>
ARM64 == <<"a", "r", "m", "6", "4">>
Architecture == {X64, ARM64}

\* _RUNNERS
RUNNERS ==
    (X64 :> "ubuntu-latest")
    @@ (ARM64 :> <<"self-hosted", "data-platform", "ubuntu", "ARM64", "4cpu16ram">>)

\* f'ubuntu@{base["channel"]}:{architecture}'
shorthand_name(channel, architecture) ==
    <<"u", "b", "u", "n", "t", "u", "@">> \o channel \o <<":">> \o architecture

\* a name that leaves the architecture out
name_in_artifact_without_architecture(channel, architecture) ==
    <<"u", "b", "u", "n", "t", "u", "@">> \o channel
        \o <<"_", "c", "c", "c", "h", "u", "b", "b", "a", "s", "e", "_">>

\* f'ubuntu@{base["channel"]}_ccchubbase_{architecture}'
name_in_artifact(channel, architecture) ==
    <<"u", "b", "u", "n", "t", "u", "@">> \o channel
        \o <<"_", "c", "c", "c", "h", "u", "b", "b", "a", "s", "e", "_">>
        \o architecture

\* a failed call: the exception, and no Base
Raise(exception) == [err |-> exception, base |-> None]

\* assert isinstance(build_on, list) and len(build_on) == 1 (build-on is a
\* list in every declaration here)
build_on_accepted(build_on) == Len(build_on) = 1

\* an architectures check that takes the first of several
architectures_accepted_any_length(build_on_architectures) == TRUE

\* assert len(build_on_architectures) == 1
architectures_accepted(build_on_architectures) == Len(build_on_architectures) = 1

\* Base.from_charmcraft_yaml_base(base, base_index=...): the exception
\* raised ("" when none) and the Base made.  `if build_on:` and
\* `if build_on_architectures:` are false for a missing key and for an empty
\* list alike
from_charmcraft_yaml_base(declaration, base_index) ==
    LET build_on == get(declaration, "build-on", None)
    IN  IF build_on # <<>> /\ ~build_on_accepted(build_on) THEN Raise("AssertionError")
        ELSE
        LET base == IF build_on # <<>> THEN build_on[1] ELSE declaration
            build_on_architectures == get(base, "architectures", None)
        IN  IF build_on_architectures # <<>>
                    /\ ~architectures_accepted(build_on_architectures)
            THEN Raise("AssertionError")
            ELSE IF build_on_architectures # <<>>
                    /\ build_on_architectures[1] \notin Architecture
            THEN Raise("ValueError")
            ELSE
            LET architecture ==
                    IF build_on_architectures # <<>> THEN build_on_architectures[1]
                    ELSE X64
            IN  IF "name" \notin DOMAIN base THEN Raise("KeyError")
                ELSE IF base["name"] # "ubuntu" THEN Raise("AssertionError")
                ELSE IF "channel" \notin DOMAIN base THEN Raise("KeyError")
                ELSE [err |-> "",
                      base |-> [base_index |-> base_index,
                                runner |-> RUNNERS[architecture],
                                name |-> shorthand_name(base["channel"], architecture),
                                name_in_artifact |->
                                    name_in_artifact(base["channel"], architecture)]]

\* an enumerate that counts from 1
enumerate_from_1(list) == [i \in DOMAIN list |-> [index |-> i, item |-> list[i]]]

\* enumerate(charmcraft_yaml["bases"])
enumerate(list) == [i \in DOMAIN list |-> [index |-> i - 1, item |-> list[i]]]

\* one step of the generator that the list comprehension drains: the next
\* declaration becomes a Base, or its exception ends main()
ResolveBase ==
    /\ module = "collect_bases"
    /\ pc = "bases"
    /\ Len(resolved) < Len(charmcraft_yaml)
    /\ LET next == enumerate(charmcraft_yaml)[Len(resolved) + 1]
           made == from_charmcraft_yaml_base(next.item, next.index)
       IN  IF made.err # "" THEN
                /\ Abort(made.err)
                /\ UNCHANGED resolved
           ELSE /\ resolved' = Append(resolved, made.base)
                /\ UNCHANGED <<pc, error>>
    /\ UNCHANGED <<module, charmcraft_yaml, output>>
    /\ UNCHANGED <<publishVars, mergeVars, commonVars, addVars, checkoutVars, buildVars>>

\* the generator is drained: bases=<json> is printed and appended to
\* GITHUB_OUTPUT
WriteOutput ==
    /\ module = "collect_bases"
    /\ pc = "bases"
    /\ Len(resolved) = Len(charmcraft_yaml)
    /\ output' = Some(resolved)
    /\ pc' = "done"
    /\ UNCHANGED <<module, error, charmcraft_yaml, resolved>>
    /\ UNCHANGED <<publishVars, mergeVars, commonVars, addVars, checkoutVars, buildVars>>

\* ------------------------------------------------ inputs of collect_bases
Channel20 == <<"2", "0", ".", "0", "4">>
Channel22 == <<"2", "2", ".", "0", "4">>

\* a declaration in shorthand notation; architectures is None when the key
\* is missing
Entry(os, channel, architectures) ==
    ("name" :> os) @@ ("channel" :> channel)
        @@ (IF architectures = None THEN EmptyDict
            ELSE ("architectures" :> architectures[1]))

\* the declarations a 'bases' list is drawn from
DeclarationPool ==
    {Entry("ubuntu", Channel22, None),
     Entry("ubuntu", Channel22, Some(<<ARM64>>)),
     Entry("ubuntu", Channel20, Some(<<X64>>)),
     Entry("ubuntu", Channel20, Some(<<X64, ARM64>>)),
     Entry("ubuntu", Channel22, Some(<<>>)),
     Entry("ubuntu", Channel22, Some(<<<<"r", "i", "s", "c", "v", "6", "4">>>>)),
     Entry("centos", Channel22, None),
     ("channel" :> Channel22),
     ("build-on" :> <<Entry("ubuntu", Channel20, Some(<<ARM64>>))>>),
     ("build-on" :> <<Entry("ubuntu", Channel20, None),
                      Entry("ubuntu", Channel22, None)>>),
     ("build-on" :> <<>>) @@ Entry("ubuntu", Channel22, None)}

InitBases ==
    /\ module = "collect_bases"
    /\ pc = "bases"
    /\ release_archives = {}
    /\ PublishStart
    /\ MergeIdle
    /\ CommonIdle
    /\ AddIdle
    /\ \E n \in 0..MaxBases : charmcraft_yaml \in [1..n -> DeclarationPool]
    /\ resolved = <<>>
    /\ output = None
    /\ CheckoutIdle
    /\ BuildIdle

NextBases == ResolveBase \/ WriteOutput

SpecBases == InitBases /\ [][NextBases]_vars

\* ------------------------------------------------- checkout.py, build.py
\* A path is [absolute, parts], its parts are strings (of characters).
\* pathlib's parsing of a string: split at "/", drop empty parts and "."
RECURSIVE parse_parts(_, _)
parse_parts(string, part) ==
    LET read == IF part \in {<<>>, <<".">>} THEN <<>> ELSE <<part>>
    IN  IF string = <<>> THEN read
        ELSE IF Head(string) = "/" THEN read \o parse_parts(Tail(string), <<>>)
        ELSE parse_parts(Tail(string), Append(part, Head(string)))

\* pathlib.PurePath(string)
PurePath(string) ==
    [absolute |-> string # <<>> /\ string[1] = "/", parts |-> parse_parts(string, <<>>)]

\* the / of pathlib: an absolute right operand replaces the left one
joinpath(p, q) ==
    IF q.absolute THEN q ELSE [absolute |-> p.absolute, parts |-> p.parts \o q.parts]

\* the working directory, and the symbolic links of the file system: a
\* checked out tree can hold a link named "l" to /etc
Cwd == [absolute |-> TRUE, parts |-> << <<"w">> >>]
Symlinks == (<<"l">> :> << <<"e", "t", "c">> >>)

\* the parts of the real location of an absolute path
RECURSIVE realpath(_, _)
realpath(parts, seen) ==
    IF parts = <<>> THEN seen
    ELSE LET part == Head(parts)
         IN  realpath(Tail(parts),
                CASE part = <<".", ".">> ->
                        IF seen = <<>> THEN <<>> ELSE SubSeq(seen, 1, Len(seen) - 1)
                  [] part \in DOMAIN Symlinks -> Symlinks[part]
                  [] OTHER -> Append(seen, part))

\* Path.resolve()
resolve(p) == [absolute |-> TRUE, parts |-> realpath(joinpath(Cwd, p).parts, <<>>)]

\* PurePath.is_relative_to(other): a comparison of parts, no file system
is_relative_to(p, other) ==
    /\ p.absolute = other.absolute
    /\ Len(other.parts) <= Len(p.parts)
    /\ SubSeq(p.parts, 1, Len(other.parts)) = other.parts

\* checkout.py: _REPOSITORY_DIRECTORY
REPOSITORY_DIRECTORY == PurePath(<<"c", "h", "a", "r", "m", "-", "r", "e", "p", "o">>)

\* build.py: Charm._repository_directory
repository_directory(charm_) ==
    joinpath(PurePath(<<"r", "e", "p", "o", "s">>), PurePath(charm_.github_repository))

\* the root of the checkout of each file
checkout_root(file, charm_) ==
    IF file = "checkout" THEN REPOSITORY_DIRECTORY ELSE repository_directory(charm_)

\* checkout.py: the git commands of checkout(charm_ref, sparse=...)
checkout_commands(sparse_) ==
    <<"init">> \o (IF sparse_ THEN <<"sparse-checkout">> ELSE <<>>)
        \o <<"remote add", "fetch", "checkout">>

\* build.py: the commands of Charm.checkout_repository, by whether mkdir
\* raised FileExistsError
build_commands(exists_) ==
    IF exists_ THEN <<"fetch", "checkout">>
    ELSE <<"init", "sparse-checkout", "remote add", "fetch", "checkout">>

\* the two texts the code looks for in stderr; a stderr is the set of those
\* it contains: none, or one of them
RepositoryNotFound == "ERROR: Repository not found."
RefNotFound == "couldn't find remote ref"
Stderrs == {{}, {RepositoryNotFound}, {RefNotFound}}

\* what is reported for each
RepositoryReport == "github_repository not found"
RefReport == "ref not found"

\* the except clauses around a git command that failed: the exception that
\* leaves the function ("" when the failure is swallowed) and the not-found
\* failure reported ("" when none)
except_CalledProcessError(file, command, stderr) ==
    IF file = "checkout" THEN
        CASE command = "remote add" /\ RepositoryNotFound \in stderr ->
                [raise |-> "CharmNotFound", report |-> RepositoryReport]
          [] command = "fetch" /\ RefNotFound \in stderr ->
                [raise |-> "CharmNotFound", report |-> RefReport]
          [] OTHER -> [raise |-> "CalledProcessError", report |-> ""]
    ELSE
        CASE RepositoryNotFound \in stderr -> [raise |-> "", report |-> RepositoryReport]
          [] RefNotFound \in stderr -> [raise |-> "", report |-> RefReport]
          [] OTHER -> [raise |-> "CalledProcessError", report |-> ""]

\* checkout.py: _REPOSITORY_DIRECTORY.mkdir(); build.py:
\* self._repository_directory.mkdir(parents=True) and the choice of commands
Mkdir ==
    /\ module \in {"checkout", "build"}
    /\ pc = "mkdir"
    /\ \E exists_ \in BOOLEAN :
        IF module = "checkout" /\ exists_ THEN
            /\ Abort("FileExistsError")
            /\ UNCHANGED commands
        ELSE
            /\ commands' = IF module = "checkout" THEN checkout_commands(sparse)
                           ELSE build_commands(exists_)
            /\ pc' = "git"
            /\ UNCHANGED error
    /\ UNCHANGED <<module, charm, sparse, ran, reports, returned>>
    /\ UNCHANGED <<publishVars, mergeVars, commonVars, addVars, basesVars, buildVars>>

\* one git command: it succeeds, or fails with some stderr and the except
\* clauses decide
RunGit ==
    /\ module \in {"checkout", "build"}
    /\ pc = "git"
    /\ commands # <<>>
    /\ \E failed \in BOOLEAN, stderr \in Stderrs :
        LET command == Head(commands)
            handled == except_CalledProcessError(module, command, stderr)
        IN  /\ ~failed => stderr = {}
            /\ ran' = Append(ran, [command |-> command, failed |-> failed,
                                   stderr |-> stderr])
            /\ IF ~failed THEN
                    /\ commands' = Tail(commands)
                    /\ UNCHANGED <<pc, error, reports>>
               ELSE
                    /\ reports' = IF handled.report = "" THEN reports
                                  ELSE Append(reports, handled.report)
                    /\ IF handled.raise # "" THEN
                            /\ Abort(handled.raise)
                            /\ UNCHANGED commands
                       ELSE /\ commands' = Tail(commands)
                            /\ UNCHANGED <<pc, error>>
    /\ UNCHANGED <<module, charm, sparse, returned>>
    /\ UNCHANGED <<publishVars, mergeVars, commonVars, addVars, basesVars, buildVars>>

\* the commands are through.  checkout.py: the path, the assertion on the
\* resolved path, return.  build.py: main() reads Charm.directory: the
\* path, the assertion on the path as written, return
ReturnPath ==
    /\ module \in {"checkout", "build"}
    /\ pc = "git"
    /\ commands = <<>>
    /\ LET root == checkout_root(module, charm)
           directory_ == joinpath(root, PurePath(charm.relative_path_to_charmcraft_yaml))
           accepted == IF module = "checkout"
                       THEN is_relative_to(resolve(directory_), resolve(root))
                       ELSE is_relative_to(directory_, root)
       IN  IF accepted THEN
                /\ returned' = Some(directory_)
                /\ pc' = "done"
                /\ UNCHANGED error
           ELSE /\ Abort("AssertionError")
                /\ UNCHANGED returned
    /\ UNCHANGED <<module, charm, sparse, commands, ran, reports>>
    /\ UNCHANGED <<publishVars, mergeVars, commonVars, addVars, basesVars, buildVars>>

\* ---------------------------------------------------- inputs of checkout
\* relative_path_to_charmcraft_yaml: ".", "c/d", "c/..", "../x",
\* "c/../../x", "/etc", "c/d/l"
ManifestPaths ==
    {<<".">>, <<"c", "/", "d">>, <<"c", "/", ".", ".">>, <<".", ".", "/", "x">>,
     <<"c", "/", ".", ".", "/", ".", ".", "/", "x">>, <<"/", "e", "t", "c">>,
     <<"c", "/", "d", "/", "l">>}

InitCheckout ==
    /\ module \in {"checkout", "build"}
    /\ pc = "mkdir"
    /\ release_archives = {}
    /\ PublishStart
    /\ MergeIdle
    /\ CommonIdle
    /\ AddIdle
    /\ BasesIdle
    /\ \E manifest \in ManifestPaths :
        charm = CharmRef(<<"o", "/", "a">>, "main", manifest)
    /\ sparse \in (IF module = "checkout" THEN BOOLEAN ELSE {TRUE})
    /\ commands = <<>>
    /\ ran = <<>>
    /\ reports = <<>>
    /\ returned = None
    /\ BuildIdle

NextCheckout == Mkdir \/ RunGit \/ ReturnPath

SpecCheckout == InitCheckout /\ [][NextCheckout]_vars


\* sub in string, of str
contains(string, sub) ==
    \E i \in 0..(Len(string) - Len(sub)) : SubSeq(string, i + 1, i + Len(sub)) = sub
\* ------------------------------------------------ build.py: the renaming
\* UbuntuBase, BASES
UbuntuBase(version, series, python_version) ==
    [version |-> version, series |-> series, python_version |-> python_version]

BASES ==
    <<UbuntuBase("20.04", <<"f", "o", "c", "a", "l">>, "3.8"),
      UbuntuBase("22.04", <<"j", "a", "m", "m", "y">>, "3.10")>>

\* ".charmcraftcachehub"
Delimiter ==
    <<".", "c", "h", "a", "r", "m", "c", "r", "a", "f", "t",
      "c", "a", "c", "h", "e", "h", "u", "b">>

\* a check that lets every subpath through
parent_accepted_always(parent) == TRUE

\* assert "_" not in parent
parent_accepted(parent) == "_" \notin Range(parent)

\* f"{wheel.name}.charmcraftcachehub.{base.series}_{parent}.charmcraftcachehub"
\* with parent.replace("/", "_")
renamed(wheel, series) ==
    wheel.name \o Delimiter \o <<".">> \o series \o <<"_">>
        \o replace(wheel.parent, "/", "_") \o Delimiter

\* wheel.rename(...): the release directory with the file moved there, over
\* any file of that name
rename(artifacts, wheel, series) ==
    (renamed(wheel, series) :>
        [parent |-> wheel.parent, name |-> wheel.name, series |-> series])
    @@ artifacts

\* "pip/wheels", the directory the glob starts from
PipWheels == <<"p", "i", "p", "/", "w", "h", "e", "e", "l", "s">>

\* a glob of "*.whl": the wheels of pip/wheels itself
glob_whl_not_recursive(wheels) == {wheel \in wheels : wheel.parent = PipWheels}

\* (pip_cache / "pip/wheels/").glob("**/*.whl"): the .whl files of
\* pip/wheels and of every directory below it
glob_whl(wheels) ==
    {wheel \in wheels :
        /\ Len(wheel.parent) >= Len(PipWheels)
        /\ SubSeq(wheel.parent, 1, Len(PipWheels)) = PipWheels
        /\ Len(wheel.name) >= 4
        /\ SubSeq(wheel.name, Len(wheel.name) - 3, Len(wheel.name)) = <<".", "w", "h", "l">>}

\* one pass of the loop over (pip_cache / "pip/wheels/").glob("**/*.whl")
RenameWheel ==
    /\ module = "build"
    /\ pc = "rename"
    /\ \E wheel \in glob_whl(pip_wheels) :
        IF ~parent_accepted(wheel.parent) THEN
            /\ Abort("AssertionError")
            /\ UNCHANGED <<pip_wheels, release_artifacts, built_for>>
        ELSE
            /\ release_artifacts' = rename(release_artifacts, wheel, ubuntu_base.series)
            /\ pip_wheels' = pip_wheels \ {wheel}
            /\ built_for' = [w \in pip_wheels \ {wheel} |-> built_for[w]]
            /\ UNCHANGED <<pc, error>>
    /\ UNCHANGED <<module, ubuntu_base, charms, requirements, subprocesses, finished>>
    /\ UNCHANGED <<publishVars, mergeVars, commonVars, addVars, basesVars, checkoutVars>>

\* the base `for base in BASES` takes after this one, None after the last
NextBase(ubuntu_base_) ==
    LET i == CHOOSE k \in DOMAIN BASES : BASES[k] = ubuntu_base_
    IN  IF i = Len(BASES) THEN None ELSE Some(BASES[i + 1])

\* the glob is exhausted: the pass of this base is over; main() goes on
\* with the next base and the same charms, or returns
RenameDone ==
    /\ module = "build"
    /\ pc = "rename"
    /\ glob_whl(pip_wheels) = {}
    /\ IF NextBase(ubuntu_base) = None THEN
            /\ pc' = "renamed"
            /\ UNCHANGED <<ubuntu_base, charms, finished>>
       ELSE /\ pc' = "pyenv"
            /\ ubuntu_base' = NextBase(ubuntu_base)[1]
            /\ charms' = finished
            /\ finished' = <<>>
    /\ UNCHANGED <<module, error, pip_wheels, release_artifacts, requirements,
                   subprocesses, built_for>>
    /\ UNCHANGED <<publishVars, mergeVars, commonVars, addVars, basesVars, checkoutVars>>

\* ----------------------------------------------------- inputs of the rename

\* "charmcraftcachehub"
Token == Tail(Delimiter)

\* "jammy"
Jammy == <<"j", "a", "m", "m", "y">>

\* "s.whl", "t.whl"
SWhl == <<"s", ".", "w", "h", "l">>
TWhl == <<"t", ".", "w", "h", "l">>

\* the wheels the builds can leave in the cache: in pip/wheels itself, in
\* pip/wheels/a6 and pip/wheels/a6/bb, in pip/wheels/a_6 and
\* pip/wheels/a6_bb, in pip/wheels/charmcraftcachehub, and the two of
\* pip/wheels/s.whl.charmcraftcachehub.jammy_pip_wheels_t.whl and
\* pip/wheels/t.whl.charmcraftcachehub.jammy/pip/wheels/s.whl
WheelPool ==
    {[parent |-> PipWheels, name |-> <<"s", ".", "w", "h", "l">>],
     [parent |-> PipWheels \o <<"/", "a", "6">>, name |-> <<"s", ".", "w", "h", "l">>],
     [parent |-> PipWheels \o <<"/", "a", "6", "/", "b", "b">>,
      name |-> <<"t", "_", "u", ".", "w", "h", "l">>],
     [parent |-> PipWheels \o <<"/", "a", "_", "6">>,
      name |-> <<"s", ".", "w", "h", "l">>],
     [parent |-> PipWheels \o <<"/", "a", "6", "_", "b", "b">>,
      name |-> <<"t", "_", "u", ".", "w", "h", "l">>],
     [parent |-> PipWheels \o <<"/">> \o Token, name |-> SWhl],
     [parent |-> PipWheels,
      name |-> SWhl \o Delimiter \o <<".">> \o Jammy \o <<"_">>
                \o replace(PipWheels, "/", "_") \o <<"_">> \o TWhl],
     [parent |-> PipWheels \o <<"/">> \o TWhl \o Delimiter \o <<".">> \o Jammy
                \o <<"/">> \o PipWheels,
      name |-> SWhl]}

\* the wheels of the pool that lie in one of the directories
InDirectories(directories) == {wheel \in WheelPool : wheel.parent \in directories}

\* the wheels one `pip install` can leave in the cache
BuildOutputs ==
    {{},
     InDirectories({PipWheels, PipWheels \o <<"/", "a", "6", "/", "b", "b">>}),
     InDirectories({PipWheels \o <<"/", "a", "6">>, PipWheels \o <<"/", "a", "_", "6">>}),
     InDirectories({PipWheels \o <<"/", "a", "6", "_", "b", "b">>}),
     InDirectories({PipWheels \o <<"/">> \o Token}),
     InDirectories({PipWheels,
                    PipWheels \o <<"/">> \o TWhl \o Delimiter \o <<".">> \o Jammy
                        \o <<"/">> \o PipWheels})}

\* ------------------------------------------------ build.py: the build loop
\* is_base_in_charmcraft_yaml, of the channels charmcraft.yaml declares
is_base_in_charmcraft_yaml(ubuntu_base_, versions) == ubuntu_base_.version \in versions

\* "build-wrapper" in tox_environments, with a test that takes any
\* environment of that prefix
wrapper_declared_by_prefix(tox_environments) ==
    tox_environments \cap {"build-wrapper", "build-wrapper-x"} # {}

\* "build-wrapper" in tox_environments
wrapper_declared(tox_environments) == "build-wrapper" \in tox_environments

\* the commands of main()
PyenvInstall(ubuntu_base_) == <<"pyenv", "install", ubuntu_base_.python_version>>
PipUpgrade == <<"pyenv", "exec", "pip", "install", "--upgrade", "pip">>
ToxListCommand == <<"tox", "list", "--no-desc">>
ToxRunCommand == <<"tox", "run", "-e", "build-wrapper">>
PipInstallCommand(requirements_) ==
    <<"pyenv", "exec", "pip", "install", "-r", requirements_,
      "--no-binary", ":all:", "--ignore-installed">>

\* where main() goes on after a charm of the loop: the next charm, or the
\* rename pass
NextCharm(rest) == IF rest = <<>> THEN "rename" ELSE "checkout"

\* subprocess.run([pyenv, "install", ...]) and the pip upgrade, check=True
PreparePython ==
    /\ module = "build"
    /\ pc = "pyenv"
    /\ \E failed \in {0, 1, 2} :
        IF failed = 1 THEN
            /\ subprocesses' = Append(subprocesses, PyenvInstall(ubuntu_base))
            /\ Abort("CalledProcessError")
        ELSE IF failed = 2 THEN
            /\ subprocesses' = subprocesses
                    \o <<PyenvInstall(ubuntu_base), PipUpgrade>>
            /\ Abort("CalledProcessError")
        ELSE
            /\ subprocesses' = subprocesses
                    \o <<PyenvInstall(ubuntu_base), PipUpgrade>>
            /\ pc' = NextCharm(charms)
            /\ error' = error
    /\ UNCHANGED <<module, ubuntu_base, pip_wheels, release_artifacts, charms,
                   requirements, finished, built_for>>
    /\ UNCHANGED <<publishVars, mergeVars, commonVars, addVars, basesVars, checkoutVars>>

\* charm_.checkout_repository(), charm_.directory and
\* is_base_in_charmcraft_yaml: a failure of the checkout ends the run; a
\* charm without the base is skipped
CheckoutRepository ==
    /\ module = "build"
    /\ pc = "checkout"
    /\ \E outcome \in {"ok", "CalledProcessError", "AssertionError"} :
        IF outcome # "ok" THEN
            /\ Abort(outcome)
            /\ UNCHANGED <<charms, finished>>
        ELSE IF ~is_base_in_charmcraft_yaml(ubuntu_base, Head(charms).versions) THEN
            /\ charms' = Tail(charms)
            /\ finished' = Append(finished, Head(charms))
            /\ pc' = NextCharm(Tail(charms))
            /\ error' = error
        ELSE
            /\ pc' = "tox list"
            /\ UNCHANGED <<error, charms, finished>>
    /\ requirements' = None
    /\ UNCHANGED <<module, ubuntu_base, pip_wheels, release_artifacts, subprocesses,
                   built_for>>
    /\ UNCHANGED <<publishVars, mergeVars, commonVars, addVars, basesVars, checkoutVars>>

\* tox list --no-desc, check=True, and the choice its output makes
ToxList ==
    /\ module = "build"
    /\ pc = "tox list"
    /\ subprocesses' = Append(subprocesses, ToxListCommand)
    /\ \E failed \in BOOLEAN :
        IF failed THEN
            /\ Abort("CalledProcessError")
            /\ UNCHANGED requirements
        ELSE IF wrapper_declared(Head(charms).tox_environments) THEN
            /\ pc' = "build-wrapper"
            /\ UNCHANGED <<error, requirements>>
        ELSE
            /\ requirements' = Some("requirements.txt")
            /\ pc' = "pip install"
            /\ error' = error
    /\ UNCHANGED <<module, ubuntu_base, pip_wheels, release_artifacts, charms,
                   finished, built_for>>
    /\ UNCHANGED <<publishVars, mergeVars, commonVars, addVars, basesVars, checkoutVars>>

\* tox run -e build-wrapper, check=True: the wrapper may write
\* requirements-last-build.txt
RunBuildWrapper ==
    /\ module = "build"
    /\ pc = "build-wrapper"
    /\ subprocesses' = Append(subprocesses, ToxRunCommand)
    /\ \E failed \in BOOLEAN, written \in SUBSET {"requirements-last-build.txt"} :
        /\ charms' = [charms EXCEPT ![1].files = @ \cup written]
        /\ IF failed THEN
               /\ Abort("CalledProcessError")
               /\ UNCHANGED requirements
           ELSE
               /\ requirements' = Some("requirements-last-build.txt")
               /\ pc' = "pip install"
               /\ error' = error
    /\ UNCHANGED <<module, ubuntu_base, pip_wheels, release_artifacts, finished,
                   built_for>>
    /\ UNCHANGED <<publishVars, mergeVars, commonVars, addVars, basesVars, checkoutVars>>

\* assert (charm_.directory / requirements).exists(), then pip install -r
\* requirements --no-binary :all: --ignore-installed, check=True: a wheel
\* the cache holds is taken from it, the others are built and cached; the
\* loop goes on with the next charm
PipInstall ==
    /\ module = "build"
    /\ pc = "pip install"
    /\ IF requirements[1] \notin Head(charms).files THEN
           /\ Abort("AssertionError")
           /\ UNCHANGED <<subprocesses, pip_wheels, charms, finished, built_for>>
       ELSE
           /\ subprocesses' = Append(subprocesses, PipInstallCommand(requirements[1]))
           /\ \E failed \in BOOLEAN, wheels \in BuildOutputs :
               /\ pip_wheels' = pip_wheels \cup wheels
               /\ built_for' = [w \in pip_wheels \cup wheels |->
                                   IF w \in pip_wheels THEN built_for[w]
                                   ELSE ubuntu_base.series]
               /\ IF failed THEN
                      /\ Abort("CalledProcessError")
                      /\ UNCHANGED <<charms, finished>>
                  ELSE
                      /\ charms' = Tail(charms)
                      /\ finished' = Append(finished, Head(charms))
                      /\ pc' = NextCharm(Tail(charms))
                      /\ error' = error
    /\ UNCHANGED <<module, ubuntu_base, release_artifacts, requirements>>
    /\ UNCHANGED <<publishVars, mergeVars, commonVars, addVars, basesVars, checkoutVars>>

\* ------------------------------------------------- inputs of the build loop
\* a charm of charms.json as the loop meets it: the channels of its
\* charmcraft.yaml, the lines of `tox list`, the requirements files of its
\* directory
Project(versions, tox_environments, files) ==
    [versions |-> versions, tox_environments |-> tox_environments, files |-> files]

ProjectPool ==
    {Project({"20.04", "22.04"}, {"lint", "build-wrapper", ""}, {"requirements.txt"}),
     Project({"22.04"}, {"lint", ""}, {"requirements.txt"}),
     Project({"20.04", "22.04"}, {"lint", ""}, {}),
     Project({"20.04", "22.04"}, {"build-wrapper-x", ""}, {"requirements-last-build.txt"})}

\* the charms files of the runs: at most two charms
CharmsFiles ==
    {<<>>} \cup {<<project>> : project \in ProjectPool}
           \cup {<<first, second>> : first \in ProjectPool, second \in ProjectPool}


InitBuild ==
    /\ module = "build"
    /\ pc = "pyenv"
    /\ release_archives = {}
    /\ PublishStart
    /\ MergeIdle
    /\ CommonIdle
    /\ AddIdle
    /\ BasesIdle
    /\ CheckoutIdle
    /\ ubuntu_base = BASES[1]
    /\ pip_wheels = {}
    /\ release_artifacts = EmptyDict
    /\ charms \in CharmsFiles
    /\ requirements = None
    /\ subprocesses = <<>>
    /\ finished = <<>>
    /\ built_for = EmptyDict

NextBuild ==
    \/ PreparePython
    \/ CheckoutRepository
    \/ ToxList
    \/ RunBuildWrapper
    \/ PipInstall
    \/ RenameWheel
    \/ RenameDone

SpecBuild == InitBuild /\ [][NextBuild]_vars

\* ------------------------------------------------------ add_charm_branch.py
\* [a-zA-Z0-9.\-_]
NameCharacters ==
    {"a", "b", "c", "d", "e", "f", "g", "h", "i", "j", "k", "l", "m",
     "n", "o", "p", "q", "r", "s", "t", "u", "v", "w", "x", "y", "z",
     "A", "B", "C", "D", "E", "F", "G", "H", "I", "J", "K", "L", "M",
     "N", "O", "P", "Q", "R", "S", "T", "U", "V", "W", "X", "Y", "Z",
     "0", "1", "2", "3", "4", "5", "6", "7", "8", "9",
     ".", "-", "_"}

\* \s of the characters an issue body can hold
Whitespace == {" ", "\t", "\n", "\r"}

\* re.fullmatch of the issue body: the body is the issue form with its three
\* headings, and each answer is of the class of its group
fullmatch(body) ==
    /\ body # None
    /\ body[1].organization # <<>> /\ Range(body[1].organization) \subseteq NameCharacters
    /\ body[1].repo_name # <<>> /\ Range(body[1].repo_name) \subseteq NameCharacters
    /\ body[1].ref # <<>> /\ Range(body[1].ref) \cap Whitespace = {}
    /\ body[1].path # <<>> /\ "\n" \notin Range(body[1].path)

\* a tuple of organizations that also lets "evil" in
allowed_github_orgs_with_evil ==
    <<<<"c", "a", "n", "o", "n", "i", "c", "a", "l">>,
      <<"j", "u", "j", "u">>,
      <<"e", "v", "i", "l">>,
      <<"c", "h", "a", "r", "m", "e", "d", "-", "k", "u", "b", "e", "r", "n", "e", "t", "e", "s">>>>

\* allowed_github_orgs
allowed_github_orgs ==
    <<<<"c", "a", "n", "o", "n", "i", "c", "a", "l">>,
      <<"j", "u", "j", "u">>,
      <<"c", "h", "a", "r", "m", "e", "d", "-", "k", "u", "b", "e", "r", "n", "e", "t", "e", "s">>>>

\* "ccchub"
Ccchub == <<"c", "c", "c", "h", "u", "b">>

\* "ccchub" in (github_repository, ref, relative_path_to_charmcraft_yaml):
\* the string is an element of the tuple
ccchub_in(values) == Ccchub \in Range(values)

\* git check-ref-format --allow-onelevel: no component begins with ".", no
\* "..", none of space ~ ^ : ? * [ \, no "/" at either end, no "//", no "."
\* at the end, no "@{", not "@", no ".lock" at the end
check_ref_format(ref) ==
    /\ ref # <<>>
    /\ ref[1] \notin {".", "/"}
    /\ ref[Len(ref)] \notin {".", "/"}
    /\ Range(ref) \cap ({"~", "^", ":", "?", "*", "[", "\\"} \cup Whitespace) = {}
    /\ \A sub \in {<<".", ".">>, <<"/", ".">>, <<"/", "/">>, <<"@", "{">>} :
        ~contains(ref, sub)
    /\ ref # <<"@">>
    /\ ~(Len(ref) >= 5 /\ SubSeq(ref, Len(ref) - 4, Len(ref)) = <<".", "l", "o", "c", "k">>)

\* path.resolve().is_relative_to(pathlib.Path(".").resolve())
path_accepted(string) ==
    is_relative_to(resolve(PurePath(string)), resolve(PurePath(<<".">>)))


\* the outcome of main(): the exception that left it ("" if none), the
\* lines of the output as (key, value), charms.json and the commands run
Outcome(exception, written, entries, ran_) ==
    [error |-> exception, output |-> written, charms |-> entries, commands |-> ran_]

\* except IssueParsingError as exception: success=false and the message
Rejected(message, entries, ran_) ==
    Outcome("", Some(<< <<"success", <<"false">> >>, <<"error", <<message>> >> >>),
            entries, ran_)

\* an else branch that puts the new entry first
Accepted_first(charm_, entries, ran_) ==
    Outcome("",
            Some(<< <<"success", <<"true">> >>,
                    <<"title", <<"Add ", charm_.github_repository, "@", charm_.ref,
                                 " at path ", charm_.relative_path_to_charmcraft_yaml>> >> >>),
            <<charm_>> \o entries, ran_)

\* else: charms.append(charm_), json.dump, success=true and the title
Accepted(charm_, entries, ran_) ==
    Outcome("",
            Some(<< <<"success", <<"true">> >>,
                    <<"title", <<"Add ", charm_.github_repository, "@", charm_.ref,
                                 " at path ", charm_.relative_path_to_charmcraft_yaml>> >> >>),
            Append(entries, charm_), ran_)

\* a membership test that compares repository and path only
already_exists_whatever_ref(charm_branch, entries) ==
    \E i \in DOMAIN entries :
        /\ entries[i].github_repository = charm_branch.github_repository
        /\ entries[i].relative_path_to_charmcraft_yaml
            = charm_branch.relative_path_to_charmcraft_yaml

\* charm_branch in charms: the dataclass compares github_repository, ref
\* and relative_path_to_charmcraft_yaml
already_exists(charm_branch, entries) ==
    \E i \in DOMAIN entries :
        /\ entries[i].github_repository = charm_branch.github_repository
        /\ entries[i].ref = charm_branch.ref
        /\ entries[i].relative_path_to_charmcraft_yaml
            = charm_branch.relative_path_to_charmcraft_yaml

\* the commands of main()
GhRepoView(github_repository) == <<"gh", "repo", "view", github_repository>>
GitCheckRefFormat(ref) == <<"git", "check-ref-format", "--allow-onelevel", ref>>

\* main() for an issue, with charms.json holding `entries`; the two long
\* messages are cut to their middle
add_charm_branch(issue_, entries) ==
    IF issue_.status_code # 204 THEN
        IF issue_.status_code = 404
        THEN Rejected("Unable to authorize GitHub user that created this issue.",
                      entries, <<>>)
        ELSE IF raise_for_status(issue_.status_code)
        THEN Outcome("HTTPError", None, entries, <<>>)
        ELSE Outcome("Exception", None, entries, <<>>)
    ELSE IF ~fullmatch(issue_.body)
    THEN Rejected("@carlcsaposs-canonical Error parsing issue body", entries, <<>>)
    ELSE
        LET organization == issue_.body[1].organization
            charm_branch ==
                CharmRef(organization \o <<"/">> \o issue_.body[1].repo_name,
                         issue_.body[1].ref, issue_.body[1].path)
            view == <<GhRepoView(charm_branch.github_repository)>>
            checked == Append(view, GitCheckRefFormat(charm_branch.ref))
        IN  IF organization \notin Range(allowed_github_orgs)
            THEN Rejected("charmcraftcache-hub is only available for these GitHub organizations",
                          entries, <<>>)
            ELSE IF ~issue_.repository_exists
            THEN Rejected("Repository not found. @carlcsaposs-canonical", entries, view)
            ELSE IF ~check_ref_format(charm_branch.ref)
            THEN Rejected("Invalid git ref. @carlcsaposs-canonical", entries, checked)
            ELSE IF ~path_accepted(charm_branch.relative_path_to_charmcraft_yaml)
            THEN Rejected("Invalid path. @carlcsaposs-canonical", entries, checked)
            ELSE IF ccchub_in(<<charm_branch.github_repository, charm_branch.ref,
                                charm_branch.relative_path_to_charmcraft_yaml>>)
            THEN Rejected("'ccchub' string is not allowed", entries, checked)
            ELSE IF already_exists(charm_branch, entries)
            THEN Rejected("Git ref already exists in charms.json. @carlcsaposs-canonical",
                          entries, checked)
            ELSE Accepted(charm_branch, entries, checked)

\* ------------------------------------------- inputs of add_charm_branch.py
\* the answers of the issue form
Body(organization, repo_name, ref, path_) ==
    Some([organization |-> organization, repo_name |-> repo_name, ref |-> ref,
          path |-> path_])

Canonical == <<"c", "a", "n", "o", "n", "i", "c", "a", "l">>
Main == <<"m", "a", "i", "n">>

\* the issue bodies: one that is not the form; canonical/a at main and at
\* dev; juju/b with a manifest path; an organization that is not allowed; a
\* ref with a space, an invalid ref, a path out of the tree; ref and path
\* "ccchub"; and "ccchub" inside the repository name, the ref and the path
Bodies ==
    {None,
     Body(Canonical, <<"a">>, Main, <<".">>),
     Body(Canonical, <<"a">>, <<"d", "e", "v">>, <<".">>),
     Body(<<"j", "u", "j", "u">>, <<"b">>, Main, <<"c", "/", "d">>),
     Body(<<"e", "v", "i", "l">>, <<"a">>, Main, <<".">>),
     Body(Canonical, <<"a">>, <<"m", " ", "n">>, <<".">>),
     Body(Canonical, <<"a">>, <<"a", ".", ".", "b">>, <<".">>),
     Body(Canonical, <<"a">>, Main, <<".", ".", "/", "x">>),
     Body(Canonical, <<"a">>, Ccchub, <<".">>),
     Body(Canonical, <<"a">>, Main, Ccchub),
     Body(Canonical, Ccchub, Main, <<".">>),
     Body(Canonical, <<"a">>, Ccchub \o <<"1">>, <<".">>),
     Body(Canonical, <<"a">>, Main, <<"c", "/">> \o Ccchub)}

\* the answers of the membership request: member, not a member, and two
\* that say neither
MemberStatuses == {204, 404, 200, 500}

Issue(status_code, body, repository_exists) ==
    [status_code |-> status_code, body |-> body, repository_exists |-> repository_exists]

\* one run of main(), on any issue; charms.json is what the run before left
AddCharmBranch ==
    /\ module = "add_charm_branch"
    /\ Len(charms_json) < MaxCharms
    /\ \E status_code \in MemberStatuses, body \in Bodies, repository_exists \in BOOLEAN :
        LET run == add_charm_branch(Issue(status_code, body, repository_exists),
                                    charms_json)
        IN  /\ issue' = Issue(status_code, body, repository_exists)
            /\ charms_json' = run.charms
            /\ github_output' = run.output
            /\ subprocesses' = run.commands
            /\ error' = run.error
            /\ pc' = IF run.error = "" THEN "done" ELSE "aborted"
    /\ UNCHANGED <<module, publishVars, mergeVars, commonVars, basesVars, checkoutVars>>
    /\ UNCHANGED <<ubuntu_base, pip_wheels, release_artifacts, charms, requirements,
                   finished, built_for>>

\* charms.json before the first run: empty, or with one entry
InitAdd ==
    /\ module = "add_charm_branch"
    /\ pc = "issue"
    /\ release_archives = {}
    /\ PublishStart
    /\ MergeIdle
    /\ CommonIdle
    /\ BasesIdle
    /\ CheckoutIdle
    /\ BuildIdle
    /\ issue = EmptyDict
    /\ charms_json \in {<<>>, <<CharmRef(Canonical \o <<"/", "a">>, Main, <<".">>)>>}
    /\ github_output = None

NextAdd == AddCharmBranch

SpecAdd == InitAdd /\ [][NextAdd]_vars


\* ------------------------------------ .github/scripts/check_labels.py
ISSUE_NUMBER == 60

required_labels ==
    <<"stable: Solutions QA tests passed",
      "stable: engineering manager approved",
      "stable: product manager approved",
      "stable: release notes curated">>

\* a list of the missing labels that stops at the first
missing_labels_first(labels, required) ==
    LET all == SelectSeq(required, LAMBDA label : label \notin labels)
    IN  IF all = <<>> THEN <<>> ELSE <<Head(all)>>

\* missing = [label for label in required if label not in labels]
missing_labels(labels, required) ==
    SelectSeq(required, LAMBDA label : label \notin labels)

\* issue_data.get("labels", []), the names
label_names(data) == IF "labels" \in DOMAIN data THEN data["labels"] ELSE {}

\* the answers of the API to the GET of the issue: found, not found, refused
FetchStatuses == {200, 404, 403}

\* the answers to the POST of the comment: created, refused
CommentStatuses == {201, 403}

\* the issues the API can return: any of the required labels and of two
\* others, or no "labels" key
IssuePool ==
    {EmptyDict} \cup
    {("labels" :> names) :
        names \in SUBSET (Range(required_labels) \cup {"bug", "stable: released"})}

\* fetch_issue(ISSUE_NUMBER)
FetchIssue ==
    /\ module = "check_labels"
    /\ pc = "fetch_issue"
    /\ \E status_code \in FetchStatuses, data \in IssuePool :
        IF status_code # 200 THEN
            /\ Abort("RuntimeError")
            /\ UNCHANGED issue_data
        ELSE
            /\ issue_data' = Some(data)
            /\ pc' = "check_labels"
            /\ UNCHANGED error
    /\ UNCHANGED <<module, posted, missing, cosVars, shellVars>>
    /\ UNCHANGED <<publishVars, mergeVars, basesVars, checkoutVars, buildVars, addVars>>

\* check_labels(issue_data, required_labels)
CheckLabels ==
    /\ module = "check_labels"
    /\ pc = "check_labels"
    /\ LET labels == label_names(issue_data[1])
       IN  /\ missing' = missing_labels(labels, required_labels)
           /\ IF missing_labels(labels, required_labels) # <<>>
              THEN Abort("ValueError")
              ELSE pc' = "comment_on_issue" /\ UNCHANGED error
    /\ UNCHANGED <<module, issue_data, posted, cosVars, shellVars>>
    /\ UNCHANGED <<publishVars, mergeVars, basesVars, checkoutVars, buildVars, addVars>>

\* comment_on_issue(ISSUE_NUMBER, "Released to stable")
CommentOnIssue ==
    /\ module = "check_labels"
    /\ pc = "comment_on_issue"
    /\ posted' = Append(posted, [issue |-> ISSUE_NUMBER, body |-> "Released to stable"])
    /\ \E status_code \in CommentStatuses :
        IF status_code # 201 THEN Abort("RuntimeError")
        ELSE pc' = "done" /\ UNCHANGED error
    /\ UNCHANGED <<module, issue_data, missing, cosVars, shellVars>>
    /\ UNCHANGED <<publishVars, mergeVars, basesVars, checkoutVars, buildVars, addVars>>

InitLabels ==
    /\ module = "check_labels"
    /\ pc = "fetch_issue"
    /\ release_archives = {}
    /\ PublishStart
    /\ MergeIdle
    /\ ToolsIdle

NextLabels == FetchIssue \/ CheckLabels \/ CommentOnIssue

SpecLabels == InitLabels /\ [][NextLabels]_vars


\* ------------------------------------------ common/relations/cos.py
\* calls made on one COSRelation
MaxCalls == 4

\* utils.generate_password(): a random string, never empty
Passwords == {"p1", "p2", "p3"}

\* self._secrets.get_value(UNIT_SCOPE, _MONITORING_PASSWORD_KEY): the value
\* stored under the key, None when there is none
get_value(stored) == stored

\* self._secrets.set_value(UNIT_SCOPE, _MONITORING_PASSWORD_KEY, value):
\* what is stored under the key afterwards; None removes the value
set_value(stored, value) == value

\* a get_monitoring_password that does not store what it generates
get_monitoring_password_uncached(stored, generate_password) ==
    LET found == get_value(stored)
    IN  IF found # None /\ found[1] # ""
        THEN [password |-> found[1], stored |-> stored, generated |-> FALSE]
        ELSE [password |-> generate_password, stored |-> stored, generated |-> TRUE]

\* get_monitoring_password(), generate_password being what
\* utils.generate_password() returns if called: [password, stored, generated]
get_monitoring_password(stored, generate_password) ==
    LET found == get_value(stored)
    IN  IF found # None /\ found[1] # ""
        THEN [password |-> found[1], stored |-> stored, generated |-> FALSE]
        ELSE [password |-> generate_password,
              stored |-> set_value(stored, Some(generate_password)),
              generated |-> TRUE]

\* reset_monitoring_password(): what is stored afterwards
reset_monitoring_password(stored) == set_value(stored, None)

\* a call of get_monitoring_password (exporter_user_config reads it)
GetMonitoringPassword ==
    /\ module = "cos"
    /\ Len(cos_calls) < MaxCalls
    /\ \E generate_password \in Passwords :
        LET got == get_monitoring_password(monitoring_password, generate_password)
        IN  /\ monitoring_password' = got.stored
            /\ cos_calls' = Append(cos_calls,
                                   [call |-> "get", password |-> Some(got.password),
                                    generated |-> got.generated])
    /\ UNCHANGED <<module, pc, error, labelVars, shellVars>>
    /\ UNCHANGED <<publishVars, mergeVars, basesVars, checkoutVars, buildVars, addVars>>

\* a call of reset_monitoring_password
ResetMonitoringPassword ==
    /\ module = "cos"
    /\ Len(cos_calls) < MaxCalls
    /\ monitoring_password' = reset_monitoring_password(monitoring_password)
    /\ cos_calls' = Append(cos_calls,
                           [call |-> "reset", password |-> None, generated |-> FALSE])
    /\ UNCHANGED <<module, pc, error, labelVars, shellVars>>
    /\ UNCHANGED <<publishVars, mergeVars, basesVars, checkoutVars, buildVars, addVars>>

\* the relation starts with no password stored, or with one of an earlier
\* hook
InitCos ==
    /\ module = "cos"
    /\ pc = "hook"
    /\ release_archives = {}
    /\ PublishStart
    /\ MergeIdle
    /\ BasesIdle /\ CheckoutIdle /\ BuildIdle /\ AddIdle
    /\ LabelsIdle /\ ShellIdle
    /\ monitoring_password \in {None} \cup {Some(p) : p \in Passwords}
    /\ cos_calls = <<>>

NextCos == GetMonitoringPassword \/ ResetMonitoringPassword

SpecCos == InitCos /\ [][NextCos]_vars


\* -------------------------------------- common/mysql_shell/__init__.py
ROLE_MAX_LENGTH == 32

\* databases created before with the description of the new one
MaxRoles == 100

Digits == <<"0", "1", "2", "3", "4", "5", "6", "7", "8", "9">>

\* str(n) of a natural number
RECURSIVE str(_)
str(n) == IF n < 10 THEN <<Digits[n + 1]>> ELSE str(n \div 10) \o <<Digits[(n % 10) + 1]>>

\* string.zfill(width)
zfill(string, width) ==
    IF Len(string) >= width THEN string
    ELSE [i \in 1..(width - Len(string)) |-> "0"] \o string

\* "_".join(parts)
RECURSIVE join(_)
join(parts) ==
    IF Len(parts) = 1 THEN Head(parts)
    ELSE Head(parts) \o <<"_">> \o join(Tail(parts))

\* string[:stop]
slice(string, stop) ==
    IF stop <= 0 THEN <<>>
    ELSE IF stop >= Len(string) THEN string ELSE SubSeq(string, 1, stop)

\* _get_mysql_roles(name_pattern) for a pattern that ends with its only
\* "%": the roles that begin with the pattern's text, "_" standing for any
\* one character
get_mysql_roles(roles, name_pattern) ==
    LET text == SubSeq(name_pattern, 1, Len(name_pattern) - 1)
    IN  {role \in roles :
            /\ Len(role) >= Len(text)
            /\ \A i \in DOMAIN text : text[i] = "_" \/ text[i] = role[i]}

role_prefix == <<"c", "h", "a", "r", "m", "e", "d", "_", "d", "b", "a">>
role_suffix == <<"X", "X">>

\* _build_application_database_dba_role(database) with the roles of the
\* server
build_application_database_dba_role(database_, roles) ==
    LET role_name_available == ROLE_MAX_LENGTH - Len(role_prefix) - Len(role_suffix) - 2
        role_name_description == slice(database_, role_name_available)
        role_name_collisions ==
            get_mysql_roles(roles, role_prefix \o <<"_">> \o role_name_description
                                    \o <<"_", "%">>)
    IN  join(<<role_prefix, role_name_description,
               zfill(str(Cardinality(role_name_collisions)), Len(role_suffix))>>)

\* database names: of 2, of 17 and of 18 characters, the last two with the
\* same first 17
Databases ==
    {<<"d", "b">>,
     [i \in 1..17 |-> "a"],
     [i \in 1..17 |-> "a"] \o <<"b">>}

\* the role of the k-th database created with the description
RoleOf(description, k) == join(<<role_prefix, description, zfill(str(k), 2)>>)

\* _create_application_database as far as CREATE ROLE: the role is built
\* and created
BuildRole ==
    /\ module = "mysql_shell"
    /\ role_name = None
    /\ \E database_ \in Databases :
        LET built_ == build_application_database_dba_role(database_, mysql_roles)
        IN  /\ database' = Some(database_)
            /\ role_name' = Some(built_)
            /\ mysql_roles' = mysql_roles \cup {built_}
    /\ UNCHANGED <<module, pc, error, labelVars, cosVars>>
    /\ UNCHANGED <<publishVars, mergeVars, basesVars, checkoutVars, buildVars, addVars>>

\* the server holds the roles of the databases created before, whose names
\* began with the 17 characters
InitShell ==
    /\ module = "mysql_shell"
    /\ pc = "create"
    /\ release_archives = {}
    /\ PublishStart
    /\ MergeIdle
    /\ BasesIdle /\ CheckoutIdle /\ BuildIdle /\ AddIdle
    /\ LabelsIdle /\ CosIdle
    /\ database = None
    /\ role_name = None
    /\ \E n \in 0..MaxRoles :
        mysql_roles = {RoleOf([i \in 1..17 |-> "a"], k) : k \in 0..(n - 1)}

NextShell == BuildRole

SpecShell == InitShell /\ [][NextShell]_vars

\* ================================================================ claims
\* methods of the requests the policy has counted for the current request
Methods(self) ==
    IF "history" \in DOMAIN self
    THEN {self["history"][i].method : i \in DOMAIN self["history"]}
    ELSE {}

\* the PATCH that publishes the release has been sent at least once
PatchIssued ==
    \/ "PATCH" \in Methods(retries)
    \/ \E k \in DOMAIN calls : calls[k].kind = "promote"

\* every file of the archive directory was uploaded with a successful response
AllUploaded ==
    /\ assets = release_archives
    /\ \A a \in release_archives :
        \E k \in DOMAIN calls :
            calls[k].kind = "upload" /\ calls[k].name = a /\ calls[k].status = 200

\* C1: the PATCH that sets draft=false, make_latest=true is issued only
\* after every file of the archive directory was uploaded with a successful
\* response; while an archive is not uploaded the release, if it exists, is a
\* draft and not latest.
C1_PromoteOnlyAfterAllUploads ==
    /\ (pc \in {"promote", "done"} \/ PatchIssued) => AllUploaded
    /\ ~AllUploaded /\ release.exists => release.draft /\ ~release.latest

C1_Witness ==
    /\ pc = "done"
    /\ release_archives = {1, 2}
    /\ AllUploaded
    /\ release.exists /\ ~release.draft /\ release.latest

\* C2: an archive upload that ends with a failure status other than a
\* rate-limit status aborts the run at that upload: it is the last request,
\* no step follows (no further upload, no promote, no deletion), the file is
\* no asset, and the release stays an existing non-latest draft.
C2_UploadFailureAborts ==
    \A k \in DOMAIN calls :
        (/\ calls[k].kind = "upload"
         /\ calls[k].status >= 400
         /\ calls[k].status \notin RateLimitStatuses)
        => /\ k = Len(calls)
           /\ pc = "aborted"
           /\ error = "HTTPError"
           /\ ~ENABLED Next
           /\ ~PatchIssued
           /\ calls[k].name \notin assets
           /\ release.exists /\ release.draft /\ ~release.latest

C2_Witness ==
    /\ pc = "aborted"
    /\ release_archives = {1, 2}
    /\ Len(calls) = 2
    /\ calls[2].kind = "upload" /\ calls[2].status = 503
    /\ todo # {}
    /\ assets = {}
    /\ release.draft

\* the current (or last) request has met n >= 1 responses so far, all of
\* them rate-limit responses (403 or 429)
OnlyRateLimited ==
    /\ "history" \in DOMAIN retries
    /\ retries["history"] # <<>>
    /\ \A i \in DOMAIN retries["history"] :
        /\ retries["history"][i].error = ""
        /\ retries["history"][i].status \in RateLimitStatuses

\* C3: the retry count is unbounded: after n consecutive 403/429 responses
\* to one request the policy is not exhausted (total and status are None,
\* re-initialisation trips no assertion), so the request is attempted again
\* (the policy sleeps, then retries) and the call returns the first response
\* whose status is not 403/429.
C3_UnboundedRetry ==
    OnlyRateLimited =>
        /\ retries["total"] = None
        /\ retries["status"] = None
        /\ ~is_exhausted(retries)
        /\ error \notin {"AssertionError", "MaxRetryError"}
        /\ \/ call \in {"sleep", "retry"}
           \/ /\ call = "idle"
              /\ calls # <<>>
              /\ calls[Len(calls)].status \notin RateLimitStatuses
              /\ error \in {"", "HTTPError"}

\* the response being slept on says the quota is used up and when it resets
QuotaExhausted ==
    /\ get(response.headers, "x-ratelimit-remaining", -1) = 0
    /\ "x-ratelimit-reset" \in DOMAIN response.headers

\* C4: when the retried response carries x-ratelimit-remaining = 0 and an
\* x-ratelimit-reset timestamp, the policy sleeps until that timestamp (once,
\* not at all when it is past), whether or not a Retry-After header is there
\* too; with the reset 10 seconds ahead and Retry-After 2 the sleep is 10
\* seconds and no sleep of 2 seconds is made.
C4_ResetTakesPrecedence ==
    [][(call = "sleep" /\ QuotaExhausted) =>
        /\ sleeps' = Append(sleeps,
              [branch |-> "reset",
               seconds |-> Max(response.headers["x-ratelimit-reset"] - clock, 0)])
        /\ clock' = Max(response.headers["x-ratelimit-reset"], clock)
        /\ call' = "retry"
        /\ (/\ response.headers["x-ratelimit-reset"] = clock + 10
            /\ get(response.headers, "retry-after", -1) = 2)
           => sleeps'[Len(sleeps')].seconds = 10 /\ clock' = clock + 10]_vars

\* a response with remaining = 0, reset 10 seconds ahead and Retry-After 2
\* is about to be slept on, and the sleep that follows takes 10 seconds
C4_Witness ==
    /\ call = "sleep"
    /\ response.status \in RateLimitStatuses
    /\ response.headers = ("x-ratelimit-remaining" :> 0)
            @@ ("x-ratelimit-reset" :> clock + 10) @@ ("retry-after" :> 2)
    /\ sleep(retries, module, response, clock).sleeps
            = <<[branch |-> "reset", seconds |-> 10]>>

\* number of responses the policy has counted for the current request
Responses(self) ==
    IF "history" \in DOMAIN self
    THEN Cardinality({i \in DOMAIN self["history"] : self["history"][i].error = ""})
    ELSE 0

\* C5 (release.py): each retried attempt is preceded by exactly one sleep,
\* taken from exactly one of the three branches (reset, retry-after,
\* fallback); a rate-limited attempt with Retry-After 5 and no exhausted
\* quota is followed by one sleep of 5 seconds and nothing else, after which
\* the request is attempted again.
C5_OneSleepPerRetry ==
    /\ [](module = "release" =>
            /\ call = "sleep" => Len(sleeps) = Responses(retries) - 1
            /\ call = "retry" => Len(sleeps) = Responses(retries)
            /\ \A i \in DOMAIN sleeps :
                sleeps[i].branch \in {"reset", "retry-after", "fallback"})
    /\ [][(module = "release" /\ call = "sleep") =>
            /\ Len(sleeps') = Len(sleeps) + 1
            /\ call' = "retry"
            /\ (~QuotaExhausted /\ get(response.headers, "retry-after", -1) = 5)
               => /\ sleeps'[Len(sleeps')] = [branch |-> "retry-after", seconds |-> 5]
                  /\ clock' = clock + 5]_vars

\* the only upload was rate limited once, slept 5 seconds on Retry-After,
\* succeeded at the second attempt, and main() is at the promote step
C5_Witness ==
    /\ module = "release"
    /\ pc = "promote"
    /\ Len(calls) = 2
    /\ calls[2] = [kind |-> "upload", name |-> 1, status |-> 200]
    /\ Responses(retries) = 1
    /\ sleeps = <<[branch |-> "retry-after", seconds |-> 5]>>
    /\ clock = 5

\* C6: a failure response whose status is outside {403, 429} is never
\* retried: only 403/429 responses are counted and slept on, and the failure
\* is returned at once to main(), where raise_for_status ends the run.
C6_OtherFailureNotRetried ==
    /\ "history" \in DOMAIN retries =>
        \A i \in DOMAIN retries["history"] :
            retries["history"][i].error = ""
                => retries["history"][i].status \in {403, 429}
    /\ call = "sleep" => response.status \in {403, 429}
    /\ \A k \in DOMAIN calls :
        (calls[k].status >= 400 /\ calls[k].status \notin {403, 429})
        => /\ k = Len(calls)
           /\ pc = "aborted"
           /\ error = "HTTPError"
           /\ call = "idle"

C6_Witness ==
    /\ pc = "aborted"
    /\ error = "HTTPError"
    /\ calls = <<[kind |-> "create", name |-> 0, status |-> 503]>>
    /\ retries["history"] = <<>>
    /\ sleeps = <<>>

\* allowed-method tuples other than the one the policy sets
OtherMethodSets ==
    {DEFAULT_ALLOWED_METHODS,
     DEFAULT_ALLOWED_METHODS \o <<"POST">>,
     DEFAULT_ALLOWED_METHODS \o <<"PATCH">>,
     DEFAULT_ALLOWED_METHODS \o <<"POST", "PATCH", "CONNECT">>,
     <<"POST", "PATCH">>,
     <<>>}

\* C7: the policy covers read, create and update requests alike: its
\* allowed methods are the library's default methods plus POST and PATCH; a
\* 403/429 answer to the draft-creation POST, to an upload POST or to the
\* promote PATCH is taken up by the policy and never handed to main(); and
\* constructing the policy with another allowed-method set fails the
\* assertion.
C7_PolicyCoversAllVerbs ==
    /\ max_retries # EmptyDict =>
        /\ Range(max_retries["allowed_methods"])
              = Range(DEFAULT_ALLOWED_METHODS) \cup {"POST", "PATCH"}
        /\ \A method \in {"GET", CreateRequest.method, UploadRequest(1).method,
                          PromoteRequest.method}, status \in {403, 429} :
              is_retry(max_retries, method, status, FALSE)
    /\ \A k \in DOMAIN calls : calls[k].status \notin {403, 429}
    /\ \A other \in OtherMethodSets :
          GitHubRateLimitRetry(("allowed_methods" :> other)).err = "AssertionError"

\* the promote PATCH was answered 429 and is about to be sent again
C7_Witness ==
    /\ pc = "promote"
    /\ call = "retry"
    /\ retries["history"] = <<[method |-> "PATCH", error |-> "", status |-> 429]>>
    /\ Len(sleeps) = 1

\* ------------------------------------------------------- the merge step
\* indexes of charms.json (from 0)
Indexes == {i - 1 : i \in DOMAIN charm_refs}

SameCharm(i, j) ==
    /\ charm_refs[i + 1].github_repository = charm_refs[j + 1].github_repository
    /\ charm_refs[i + 1].relative_path_to_charmcraft_yaml
          = charm_refs[j + 1].relative_path_to_charmcraft_yaml

\* the grouping has been made
Grouped == pc # "group" /\ charm_refs # <<>>

\* C8: the merge step groups the indexes of charms.json by
\* (github_repository, relative_path_to_charmcraft_yaml), ignoring ref: every
\* index is in exactly one group, two indexes share a group exactly when
\* they agree on both fields, and each group lists its indexes in ascending
\* order.
C8_GroupsByRepositoryAndPath ==
    Grouped =>
        /\ \A i \in Indexes :
            Cardinality({k \in DOMAIN groups : i \in Range(groups[k].indexes)}) = 1
        /\ \A k \in DOMAIN groups :
            /\ Range(groups[k].indexes) \subseteq Indexes
            /\ \A a, b \in DOMAIN groups[k].indexes :
                a < b => groups[k].indexes[a] < groups[k].indexes[b]
        /\ \A i, j \in Indexes :
            (\E k \in DOMAIN groups :
                i \in Range(groups[k].indexes) /\ j \in Range(groups[k].indexes))
            <=> SameCharm(i, j)

\* three entries: the first and the third are the same charm at two refs,
\* the second is another charm
C8_Witness ==
    /\ Grouped
    /\ Len(charm_refs) = 3
    /\ SameCharm(0, 2) /\ ~SameCharm(0, 1)
    /\ charm_refs[1].ref # charm_refs[3].ref
    /\ Len(groups) = 2
    /\ groups[1].indexes = <<0, 2>>
    /\ groups[2].indexes = <<1>>

\* the merge loops are over
Merged == Grouped /\ Pending(groups, bases) = <<>>

\* the members of a group whose build for `base` holds the wheel
Holders(indexes, base, wheel) ==
    {i \in Range(indexes) :
        /\ [index |-> i, base |-> base] \in DOMAIN built
        /\ wheel \in DOMAIN built[[index |-> i, base |-> base]][BaseSubdirectory]}

BaseNames == {d.base : d \in DOMAIN built}
Wheels == UNION {DOMAIN built[d][BaseSubdirectory] : d \in DOMAIN built}
Lowest(set) == CHOOSE m \in set : \A i \in set : m <= i

\* C9: first listed wins: for every group, base and wheel that two or more
\* members of the group built, the wheel in the combined directory, and in
\* the archive made of it, is the one of the lowest index among them.
C9_FirstListedWins ==
    Merged =>
        \A k \in DOMAIN groups, base \in BaseNames, wheel \in Wheels :
            LET holders == Holders(groups[k].indexes, base, wheel)
                target == [index |-> min(groups[k].indexes), base |-> base]
                first == [index |-> Lowest(holders), base |-> base]
            IN  Cardinality(holders) >= 2 =>
                    /\ target \in DOMAIN combined_bases
                    /\ wheel \in DOMAIN combined_bases[target]
                    /\ combined_bases[target][wheel] = built[first][BaseSubdirectory][wheel]
                    /\ \A name \in DOMAIN archived :
                        archived[name].base = target =>
                            archived[name].files[wheel]
                                = built[first][BaseSubdirectory][wheel]

\* a group of three whose second and third members, not the first, built
\* the same wheel; the archive holds the second member's
C9_Witness ==
    /\ pc = "tag"
    /\ Len(groups) = 1
    /\ groups[1].indexes = <<0, 1, 2>>
    /\ \E base \in BaseNames, wheel \in Wheels :
        /\ Holders(groups[1].indexes, base, wheel) = {1, 2}
        /\ \E name \in DOMAIN archived :
            /\ archived[name].base = [index |-> 0, base |-> base]
            /\ archived[name].files[wheel] = 1

\* every archive has been written
Archived == Merged /\ DOMAIN bases = {} /\ pc \notin {"merge", "archive"}
                /\ Unarchived = {}

\* C10: for every group, also one whose entries differ in ref only, and
\* every base that a member was built for, the finished merge leaves exactly
\* one combined directory, named by the group's lowest index, and exactly
\* one archive, named from that entry; it never leaves one per ref.
C10_OneArchivePerBase ==
    /\ \A k \in DOMAIN groups, base \in BaseNames :
        Cardinality({d \in DOMAIN combined_bases :
                        d.base = base /\ d.index \in Range(groups[k].indexes)}) <= 1
    /\ Archived =>
        \A k \in DOMAIN groups, base \in BaseNames :
            LET members == {i \in Range(groups[k].indexes) :
                                [index |-> i, base |-> base] \in DOMAIN built}
                target == [index |-> min(groups[k].indexes), base |-> base]
                dirs == {d \in DOMAIN combined_bases :
                            d.base = base /\ d.index \in Range(groups[k].indexes)}
                names == {name \in DOMAIN archived :
                            /\ archived[name].base.base = base
                            /\ archived[name].base.index \in Range(groups[k].indexes)}
            IN  IF members = {} THEN dirs = {} /\ names = {}
                ELSE /\ dirs = {target}
                     /\ names = {archive_name(charm_refs, target)}

\* one charm at two refs, both built for the same base, and the first also
\* for a second base: two archives, not three
C10_Witness ==
    /\ pc = "tag"
    /\ Len(charm_refs) = 2
    /\ SameCharm(0, 1)
    /\ charm_refs[1].ref # charm_refs[2].ref
    /\ Cardinality(DOMAIN built) = 3
    /\ Cardinality(DOMAIN archived) = 2
    /\ \A name \in DOMAIN archived : archived[name].base.index = 0

\* ---------------------------------------------------- the archive step
\* two combined directories whose archives would have one name
Collision ==
    \E d1, d2 \in DOMAIN combined_bases :
        /\ d1 # d2
        /\ archive_name(charm_refs, d1) = archive_name(charm_refs, d2)

\* main() is past the archive loop
PastArchives == pc \notin {"group", "merge", "archive", "aborted"}

\* nothing has been published
NothingPublished == tag = "none" /\ ~release.exists /\ calls = <<>>

\* C11: archive names are unique within a release and a collision is fatal:
\* an archive, once written, is never written again; a pass of the archive
\* loop either writes an archive under a name no archive has, or aborts with
\* the archives as they were; and when two combined directories map to one
\* archive name the run never gets past the archive loop, and no tag and no
\* release is made.
C11_ArchiveNameCollisionIsFatal ==
    /\ [](PastArchives => Cardinality(DOMAIN archived) = Cardinality(DOMAIN combined_bases))
    /\ []((pc \notin {"group", "merge"} /\ Collision) => ~PastArchives /\ NothingPublished)
    /\ [][\A name \in DOMAIN archived :
            name \in DOMAIN archived' /\ archived'[name] = archived[name]]_vars
    /\ [][pc = "archive" =>
            IF pc' = "aborted"
            THEN /\ error' = "AssertionError"
                 /\ archived' = archived
                 /\ release_archives' = release_archives
                 /\ \E base \in Unarchived :
                        archive_name(charm_refs, base) \in DOMAIN archived
            ELSE \E base \in Unarchived :
                    /\ archive_name(charm_refs, base) \notin DOMAIN archived
                    /\ DOMAIN archived'
                          = DOMAIN archived \cup {archive_name(charm_refs, base)}
                    /\ archived'[archive_name(charm_refs, base)].base = base]_vars

\* manifest paths "c/d" and "c_d" of one repository, built for one base: the
\* run has aborted at the second archive with the first one in place
C11_Witness ==
    /\ pc = "aborted"
    /\ error = "AssertionError"
    /\ Collision
    /\ Cardinality(DOMAIN archived) = 1
    /\ \E base \in Unarchived : archive_name(charm_refs, base) \in DOMAIN archived
    /\ \E i, j \in Indexes :
        /\ charm_refs[i + 1].github_repository = charm_refs[j + 1].github_repository
        /\ charm_refs[i + 1].relative_path_to_charmcraft_yaml = <<"c", "/", "d">>
        /\ charm_refs[j + 1].relative_path_to_charmcraft_yaml = <<"c", "_", "d">>
    /\ NothingPublished

\* ------------------------------------------------------ the leftover check
\* the group an index of charms.json is in
GroupOf(i) == groups[CHOOSE k \in DOMAIN groups : i \in Range(groups[k].indexes)]

\* bases/ held something that is of no entry of charms.json
Leftover == \E d \in DOMAIN built : d.index \notin Indexes

\* C12: once the merge groups are processed no directory of an index of
\* charms.json is left in the per-index root, and main() goes on to the
\* archives only with the root empty; each pass of the merge deletes exactly
\* one directory, of an index of charms.json, after copying its files to its
\* group's combined directory, and a deleted directory never comes back; if
\* anything else was in the root the run aborts with no archive, no tag and
\* no release.
C12_LeftoverIsFatal ==
    /\ [](Merged => \A d \in DOMAIN bases : d.index \notin Indexes)
    /\ []((pc \notin {"group", "merge", "aborted"}) => DOMAIN bases = {})
    /\ []((Grouped /\ Leftover) =>
            /\ pc \in {"merge", "aborted"}
            /\ archived = EmptyDict /\ release_archives = {}
            /\ NothingPublished)
    /\ []((pc = "aborted" /\ error = "OSError") => Merged /\ DOMAIN bases # {})
    /\ [][DOMAIN bases' \subseteq DOMAIN bases]_vars
    /\ [][(bases' # bases \/ combined_bases' # combined_bases) =>
            \E d \in DOMAIN bases :
                LET target == [index |-> min(GroupOf(d.index).indexes), base |-> d.base]
                IN  /\ d.index \in Indexes
                    /\ bases' = rmtree(bases, d)
                    /\ target \in DOMAIN combined_bases'
                    /\ \A file \in DOMAIN bases[d][BaseSubdirectory] :
                        /\ file \in DOMAIN combined_bases'[target]
                        /\ combined_bases'[target][file] = bases[d][BaseSubdirectory][file]
                    /\ \A other \in DOMAIN combined_bases' \ {target} :
                        /\ other \in DOMAIN combined_bases
                        /\ combined_bases'[other] = combined_bases[other]]_vars

\* three entries and the build of a fourth index: the entries' directories
\* were merged and deleted, the fourth is left, and the run has aborted
C12_Witness ==
    /\ pc = "aborted"
    /\ error = "OSError"
    /\ Len(charm_refs) = 3
    /\ DOMAIN bases = {[index |-> 3, base |-> <<"j">>]}
    /\ Cardinality(DOMAIN built) >= 4
    /\ combined_bases # EmptyDict
    /\ archived = EmptyDict
    /\ NothingPublished

\* ------------------------------------------------------ the base resolver
\* the entry of a declaration that says what to build on: the only entry of
\* its build-on list, or the declaration itself
Effective(declaration) ==
    IF "build-on" \in DOMAIN declaration /\ Len(declaration["build-on"]) = 1
    THEN declaration["build-on"][1]
    ELSE declaration

Listed(declaration) ==
    IF "architectures" \in DOMAIN Effective(declaration)
    THEN Effective(declaration)["architectures"]
    ELSE <<>>

ArchitectureOf(declaration) ==
    IF Listed(declaration) = <<>> THEN X64 ELSE Listed(declaration)[1]

ChannelOf(declaration) == Effective(declaration)["channel"]

\* a declaration of a valid manifest: Ubuntu, a channel, at most one
\* architecture, of the table, given directly or in a build-on list of one
WellFormed(declaration) ==
    /\ "build-on" \in DOMAIN declaration => Len(declaration["build-on"]) = 1
    /\ {"name", "channel"} \subseteq DOMAIN Effective(declaration)
    /\ Effective(declaration)["name"] = "ubuntu"
    /\ Len(Listed(declaration)) <= 1
    /\ Listed(declaration) # <<>> => Listed(declaration)[1] \in Architecture

\* C13: for a valid manifest the resolver does not fail and returns exactly
\* one Base per entry of 'bases', in declaration order, each with base_index
\* equal to its entry's position (from 0); the Bases made so far are always
\* those of the first entries, and nothing is written when an entry fails.
C13_OneBasePerDeclaration ==
    module = "collect_bases" =>
        /\ (\A i \in DOMAIN charmcraft_yaml : WellFormed(charmcraft_yaml[i]))
                => pc # "aborted"
        /\ Len(resolved) <= Len(charmcraft_yaml)
        /\ \A i \in DOMAIN resolved :
            /\ resolved[i].base_index = i - 1
            /\ resolved[i].name
                = <<"u", "b", "u", "n", "t", "u", "@">> \o ChannelOf(charmcraft_yaml[i])
                    \o <<":">> \o ArchitectureOf(charmcraft_yaml[i])
        /\ pc = "done" => output = Some(resolved) /\ Len(resolved) = Len(charmcraft_yaml)
        /\ pc # "done" => output = None

\* three different declarations, one of them with a build-on list, resolved
\* in order
C13_Witness ==
    /\ module = "collect_bases"
    /\ pc = "done"
    /\ Len(charmcraft_yaml) = 3
    /\ "build-on" \in DOMAIN charmcraft_yaml[2]
    /\ ChannelOf(charmcraft_yaml[1]) # ChannelOf(charmcraft_yaml[2])
    /\ ArchitectureOf(charmcraft_yaml[2]) # ArchitectureOf(charmcraft_yaml[3])
    /\ Len(output[1]) = 3
    /\ output[1][3].base_index = 2

\* C14: name_in_artifact is injective over (channel, architecture): two
\* accepted declarations have the same name_in_artifact only if they have
\* the same channel and the same architecture.
C14_NameInArtifactInjective ==
    \A i, j \in DOMAIN resolved :
        resolved[i].name_in_artifact = resolved[j].name_in_artifact =>
            /\ ChannelOf(charmcraft_yaml[i]) = ChannelOf(charmcraft_yaml[j])
            /\ ArchitectureOf(charmcraft_yaml[i]) = ArchitectureOf(charmcraft_yaml[j])

\* three accepted declarations: two of one channel and two architectures,
\* two of one architecture and two channels; three names
C14_Witness ==
    /\ Len(resolved) = 3
    /\ ChannelOf(charmcraft_yaml[1]) = ChannelOf(charmcraft_yaml[2])
    /\ ArchitectureOf(charmcraft_yaml[1]) # ArchitectureOf(charmcraft_yaml[2])
    /\ ChannelOf(charmcraft_yaml[2]) # ChannelOf(charmcraft_yaml[3])
    /\ ArchitectureOf(charmcraft_yaml[2]) = ArchitectureOf(charmcraft_yaml[3])
    /\ Cardinality({resolved[i].name_in_artifact : i \in DOMAIN resolved}) = 3

\* C15: a declaration that has a build-on list of any length but one is
\* rejected: no Base is made for it, and main() has failed once the
\* declarations before it are resolved and it has been taken.
C15_BuildOnExactlyOne ==
    \A i \in DOMAIN charmcraft_yaml :
        ("build-on" \in DOMAIN charmcraft_yaml[i]
                /\ Len(charmcraft_yaml[i]["build-on"]) # 1)
            => /\ Len(resolved) < i
               /\ pc # "done"

\* C16: a declaration without architectures resolves to amd64 and the x64
\* runner; one with exactly one listed architecture resolves to that
\* architecture and its runner of the table; one with more than one listed
\* architecture is fatal: no Base is made for it, and the failure at it is
\* the assertion's.
C16_ArchitectureResolution ==
    /\ \A i \in DOMAIN resolved :
        LET declaration == charmcraft_yaml[i]
            suffix == SubSeq(resolved[i].name, Len(resolved[i].name) - 4,
                             Len(resolved[i].name))
        IN  /\ "architectures" \notin DOMAIN Effective(declaration) =>
                /\ suffix = <<"a", "m", "d", "6", "4">>
                /\ resolved[i].runner = "ubuntu-latest"
            /\ Len(Listed(declaration)) = 1 =>
                /\ suffix = Listed(declaration)[1]
                /\ Listed(declaration)[1] = <<"a", "m", "d", "6", "4">>
                        => resolved[i].runner = "ubuntu-latest"
                /\ Listed(declaration)[1] = <<"a", "r", "m", "6", "4">>
                        => resolved[i].runner = <<"self-hosted", "data-platform",
                                                  "ubuntu", "ARM64", "4cpu16ram">>
    /\ \A i \in DOMAIN charmcraft_yaml :
        Len(Listed(charmcraft_yaml[i])) > 1 =>
            /\ Len(resolved) < i
            /\ pc # "done"
            /\ (pc = "aborted" /\ Len(resolved) = i - 1) => error = "AssertionError"

\* no architectures, then arm64 alone, then amd64 and arm64 together: two
\* Bases, the second on the ARM runner, and the run has failed at the third
C16_Witness ==
    /\ module = "collect_bases"
    /\ Len(charmcraft_yaml) = 3
    /\ "architectures" \notin DOMAIN Effective(charmcraft_yaml[1])
    /\ Listed(charmcraft_yaml[2]) = <<ARM64>>
    /\ Len(Listed(charmcraft_yaml[3])) = 2
    /\ Len(resolved) = 2
    /\ resolved[1].runner = "ubuntu-latest"
    /\ resolved[2].runner # "ubuntu-latest"
    /\ pc = "aborted"
    /\ error = "AssertionError"

\* ------------------------------------------------------- source checkout
\* a git step that failed with the not-found text of its own step
RepositoryMissing(step) ==
    step.failed /\ step.command = "remote add" /\ RepositoryNotFound \in step.stderr

RefMissing(step) ==
    step.failed /\ step.command = "fetch" /\ RefNotFound \in step.stderr

\* C17: a remote registration that fails because the repository is not
\* found and a fetch that fails because the ref is not found are reported
\* as two different failures, and either ends the checkout: the failed step
\* is the last git step run and no charm directory is returned.
C17_NotFoundEndsCheckout ==
    /\ RepositoryReport # RefReport
    /\ \A i \in DOMAIN ran :
        /\ RepositoryMissing(ran[i]) =>
            /\ reports # <<>> /\ reports[Len(reports)] = RepositoryReport
            /\ i = Len(ran)
            /\ returned = None /\ pc # "done"
        /\ RefMissing(ran[i]) =>
            /\ reports # <<>> /\ reports[Len(reports)] = RefReport
            /\ i = Len(ran)
            /\ returned = None /\ pc # "done"

\* C18: a failed git step that is not a repository-not-found of the remote
\* registration or a ref-not-found of the fetch propagates: it is the last
\* step run, main() has ended with CalledProcessError and no directory is
\* returned; a not-found failure is reported only for a step with the text
\* of its own.
C18_OtherFailuresPropagate ==
    /\ \A i \in DOMAIN ran :
        (ran[i].failed /\ ~RepositoryMissing(ran[i]) /\ ~RefMissing(ran[i])) =>
            /\ i = Len(ran)
            /\ pc = "aborted" /\ error = "CalledProcessError"
            /\ returned = None
    /\ Len(reports)
        = Cardinality({i \in DOMAIN ran : RepositoryMissing(ran[i]) \/ RefMissing(ran[i])})

\* C19: a charm directory that is returned lies, in the file system, at or
\* under the root of the checkout; for a manifest path that leaves the root
\* the run fails before a path is returned.
C19_DirectoryInsideRoot ==
    returned # None =>
        is_relative_to(resolve(returned[1]), resolve(checkout_root(module, charm)))

\* --------------------------------------------------------- the rename step
\* C20: a wheel whose cache subpath contains "_" is never renamed or moved:
\* no file of the release directory comes from such a subpath, the pass of a
\* base ends normally only with every wheel moved, and the run fails, with
\* the assertion, only with such a wheel still in the cache.
C20_UnderscoreSubpathIsFatal ==
    /\ [](module = "build" =>
            /\ \A artifact \in DOMAIN release_artifacts :
                "_" \notin Range(release_artifacts[artifact].parent)
            /\ pc = "renamed" => pip_wheels = {})
    /\ [][(module = "build" /\ pc = "rename" /\ pc' = "aborted") =>
            /\ error' = "AssertionError"
            /\ \E wheel \in pip_wheels' : "_" \in Range(wheel.parent)]_vars

\* pip/wheels/a6 and pip/wheels/a_6 each held a wheel: the first was moved,
\* the run failed at the second, which is still in the cache
C20_Witness ==
    /\ module = "build"
    /\ pc = "aborted"
    /\ error = "AssertionError"
    /\ \E wheel \in pip_wheels : wheel.parent = PipWheels \o <<"/", "a", "_", "6">>
    /\ \E artifact \in DOMAIN release_artifacts :
        release_artifacts[artifact].parent = PipWheels \o <<"/", "a", "6">>

\* ------------------------------------------------------ the artifact names
\* C21: a wheel whose cache subpath contains the delimiter token
\* "charmcraftcachehub" is never renamed: no file of the release directory
\* comes from such a subpath, and the rename pass does not end normally
\* with such a wheel met.
C21_TokenSubpathIsFatal ==
    module = "build" =>
        \A artifact \in DOMAIN release_artifacts :
            ~contains(release_artifacts[artifact].parent, Token)

\* string.split(sep), of str
RECURSIVE split(_, _)
split(string, sep) ==
    IF ~contains(string, sep) THEN <<string>>
    ELSE LET i == CHOOSE k \in 0..(Len(string) - Len(sep)) :
                    /\ SubSeq(string, k + 1, k + Len(sep)) = sep
                    /\ \A j \in 0..(k - 1) : SubSeq(string, j + 1, j + Len(sep)) # sep
         IN <<SubSeq(string, 1, i)>>
                \o split(SubSeq(string, i + Len(sep) + 1, Len(string)), sep)

\* the (filename, subpath) read back from an artifact name of a series: the
\* name split on the delimiter token gives '<filename>.', '.<series>_<flattened
\* subpath>.' and ''; the separator replacement is undone in the subpath.
\* None for a name that does not split so.
Decoded(artifact, series) ==
    LET parts == split(artifact, Token)
        prefix == <<".">> \o series \o <<"_">>
    IN IF /\ Len(parts) = 3
          /\ parts[3] = <<>>
          /\ Len(parts[1]) >= 1 /\ parts[1][Len(parts[1])] = "."
          /\ Len(parts[2]) >= Len(prefix) + 1
          /\ SubSeq(parts[2], 1, Len(prefix)) = prefix
          /\ parts[2][Len(parts[2])] = "."
       THEN Some(<<SubSeq(parts[1], 1, Len(parts[1]) - 1),
                   replace(SubSeq(parts[2], Len(prefix) + 1, Len(parts[2]) - 1),
                           "_", "/")>>)
       ELSE None

\* C22: the name of every renamed wheel, split on the delimiter token and
\* with the separator replacement undone, gives back the wheel's filename
\* and cache subpath; and no rename gives a wheel the name of a wheel
\* renamed before it (two different wheels never get the same name).
C22_RoundTrip ==
    /\ [](module = "build" =>
            \A artifact \in DOMAIN release_artifacts :
                Decoded(artifact, release_artifacts[artifact].series)
                    = Some(<<release_artifacts[artifact].name,
                             release_artifacts[artifact].parent>>))
    /\ [][module = "build" =>
            \A artifact \in DOMAIN release_artifacts :
                /\ artifact \in DOMAIN release_artifacts'
                /\ release_artifacts'[artifact] = release_artifacts[artifact]]_vars

\* C23: every renamed wheel is named
\* '<filename>.charmcraftcachehub.<flattened subpath>.charmcraftcachehub',
\* the flattened subpath being the cache subpath with every "/" replaced by
\* "_" and nothing else.
C23_ArtifactName ==
    module = "build" =>
        \A artifact \in DOMAIN release_artifacts :
            artifact = release_artifacts[artifact].name
                        \o <<".">> \o Token \o <<".">>
                        \o replace(release_artifacts[artifact].parent, "/", "_")
                        \o <<".">> \o Token

\* ---------------------------------------------------------- the build loop
\* the last command main() ran
LastCommand == subprocesses[Len(subprocesses)]

\* the command is a pip install -r of the file
InstallsFrom(command, file) ==
    /\ Len(command) >= 6
    /\ SubSeq(command, 3, 6) = <<"pip", "install", "-r", file>>

\* C24: the requirements file is selected by the build-wrapper task: with
\* 'build-wrapper' among the tox environments the wrapper is run, right after
\* the listing, and requirements-last-build.txt is selected; without it the
\* wrapper is never run and requirements.txt is selected.  pip installs from
\* the selected file, and only if it exists: with the file missing the run
\* ends with the assertion and pip is not invoked.
C24_RequirementsSelection ==
    /\ [](module = "build" /\ pc = "pip install" =>
            IF "build-wrapper" \in Head(charms).tox_environments
            THEN /\ requirements = Some("requirements-last-build.txt")
                 /\ LastCommand = ToxRunCommand
                 /\ subprocesses[Len(subprocesses) - 1] = ToxListCommand
            ELSE /\ requirements = Some("requirements.txt")
                 /\ LastCommand = ToxListCommand)
    /\ [][(module = "build" /\ pc = "pip install") =>
            IF requirements[1] \in Head(charms).files
            THEN /\ Len(subprocesses') = Len(subprocesses) + 1
                 /\ InstallsFrom(subprocesses'[Len(subprocesses')], requirements[1])
            ELSE /\ pc' = "aborted"
                 /\ error' = "AssertionError"
                 /\ subprocesses' = subprocesses
                 /\ pip_wheels' = pip_wheels]_vars
    /\ [][(module = "build" /\ pc # "pip install") =>
            \/ subprocesses' = subprocesses
            \/ \A file \in {"requirements.txt", "requirements-last-build.txt"} :
                ~InstallsFrom(subprocesses'[Len(subprocesses')], file)]_vars

\* the first charm declared build-wrapper and was installed from
\* requirements-last-build.txt; the second does not declare it and has no
\* requirements.txt: the run ended at the assertion, right after the listing
C24_Witness ==
    /\ module = "build"
    /\ pc = "aborted"
    /\ error = "AssertionError"
    /\ LastCommand = ToxListCommand
    /\ \E i \in DOMAIN subprocesses :
        /\ subprocesses[i] = PipInstallCommand("requirements-last-build.txt")
        /\ subprocesses[i - 1] = ToxRunCommand

\* ------------------------------------------------------- the retry sleeps
\* C25: the sleeps of the retry policy stop at a deadline the caller gives
\* the run: whatever the deadline (here any up to the fallback sleep), once
\* the run's clock has reached it the run does not sleep any more, however
\* many rate-limit responses follow.
C25_DeadlineStopsWaiting ==
    [][\A deadline \in 1..FallbackSeconds :
        (module \in Modules /\ clock >= deadline) => clock' = clock]_vars

\* the response being slept on has a retryable status and neither the
\* quota-exhausted signal nor a retry-after header
NoSignal ==
    /\ module \in Modules
    /\ call = "sleep"
    /\ response.status \in RateLimitStatuses
    /\ ~QuotaExhausted
    /\ "retry-after" \notin DOMAIN response.headers

\* C28: a 403 or 429 response with neither the quota-exhausted signal nor a
\* retry-after header, the x-ratelimit-remaining header missing or not, is
\* followed by one sleep of the fixed 60 seconds and then by the retry: no
\* exception is raised and the request is not retried without the sleep.
C28_FallbackSleep ==
    [][NoSignal =>
        /\ sleeps' = Append(sleeps, [branch |-> "fallback", seconds |-> FallbackSeconds])
        /\ clock' = clock + FallbackSeconds
        /\ call' = "retry"
        /\ pc' = pc
        /\ error' = ""]_vars

\* ------------------------------------------------- the tag and the release
\* C26: the tag the publisher makes is an annotated tag; it is made and
\* pushed before the release is created: while the tag is not pushed no
\* request has been made to the release API and no release exists; the
\* release is created as a draft that is not latest, with the tag's name as
\* tag_name and the current commit as target.
C26_TagBeforeDraftRelease ==
    /\ [](module \in Modules =>
            /\ tag # "none" => (subprocesses # <<>> /\ annotated(subprocesses[1]))
            /\ tag # "pushed" =>
                /\ calls = <<>> /\ call = "idle" /\ limited = 0
                /\ ~release.exists
                /\ pc \notin {"create", "upload", "promote", "done"}
            /\ release.exists =>
                /\ tag = "pushed"
                /\ TagName # None
                /\ release.tag_name = TagName
                /\ release.target_commitish = Some("GITHUB_SHA"))
    /\ [][(module \in Modules /\ ~release.exists /\ release'.exists) =>
            (release'.draft /\ ~release'.latest)]_vars

\* ------------------------------------------------- the unwrapping of a base
\* the per-index directories the merge removes in this step
Removed == DOMAIN bases \ DOMAIN bases'

\* C27: a merge step that removes a per-index per-base directory removes
\* one that holds exactly one subdirectory, and has copied the files of that
\* subdirectory, not the subdirectory, into the combined directory of its
\* base; a directory of an entry of charms.json that holds no subdirectory
\* or more than one is never copied or removed: the merge ends there with
\* the assertion, with bases/ and combined_bases/ as they were, and the
\* archive and tag steps are not reached.
C27_OneSubdirectoryUnwrapped ==
    /\ [][(pc = "merge" /\ bases' # bases) =>
            \E d \in DOMAIN bases :
                /\ Removed = {d}
                /\ Cardinality(DOMAIN bases[d]) = 1
                /\ \E c \in DOMAIN combined_bases' :
                    /\ c.base = d.base
                    /\ \A sub \in DOMAIN bases[d] :
                        /\ sub \notin DOMAIN combined_bases'[c]
                        /\ \A f \in DOMAIN bases[d][sub] :
                            /\ f \in DOMAIN combined_bases'[c]
                            /\ combined_bases'[c][f] = bases[d][sub][f]]_vars
    /\ [][(pc = "merge" /\ pc' = "aborted" /\ error' = "AssertionError") =>
            /\ bases' = bases
            /\ combined_bases' = combined_bases
            /\ \E d \in DOMAIN bases : Cardinality(DOMAIN bases[d]) # 1]_vars
    /\ [](\A d \in DOMAIN built :
            (d.index < Len(charm_refs) /\ Cardinality(DOMAIN built[d]) # 1) =>
                /\ d \in DOMAIN bases
                /\ bases[d] = built[d]
                /\ pc \in {"group", "merge", "aborted"})

\* the first of two entries of one charm was built into a directory with
\* two subdirectories: the second entry's directory is merged and removed,
\* then the merge fails at the first's, which is still as it was built
C27_Witness ==
    /\ pc = "aborted"
    /\ error = "AssertionError"
    /\ Len(charm_refs) = 2
    /\ Cardinality(DOMAIN built[[index |-> 0, base |-> <<"j">>]]) = 2
    /\ bases[[index |-> 0, base |-> <<"j">>]] = built[[index |-> 0, base |-> <<"j">>]]
    /\ [index |-> 1, base |-> <<"j">>] \notin DOMAIN bases
    /\ [index |-> 0, base |-> <<"j">>] \in DOMAIN combined_bases
    /\ archived = EmptyDict

\* ------------------------------------------------------ add_charm_branch.py
\* the entry the issue of the run asks for
Requested ==
    CharmRef(issue.body[1].organization \o <<"/">> \o issue.body[1].repo_name,
             issue.body[1].ref, issue.body[1].path)

\* "ccchub" occurs in a field of the entry
HasCcchub(entry) ==
    \/ contains(entry.github_repository, Ccchub)
    \/ contains(entry.ref, Ccchub)
    \/ contains(entry.relative_path_to_charmcraft_yaml, Ccchub)

\* C29: a request whose repository name, ref or manifest path contains
\* "ccchub" is rejected: the run that gives an output for it gives
\* success=false; and charms.json never holds an entry with "ccchub" in
\* one of its fields.
C29_CcchubRejected ==
    module = "add_charm_branch" =>
        /\ \A i \in DOMAIN charms_json : ~HasCcchub(charms_json[i])
        /\ (issue # EmptyDict /\ fullmatch(issue.body) /\ HasCcchub(Requested)
                /\ github_output # None) =>
            github_output[1][1] = <<"success", <<"false">> >>

\* the messages of the rejections
Messages ==
    {"Unable to authorize GitHub user that created this issue.",
     "@carlcsaposs-canonical Error parsing issue body",
     "charmcraftcache-hub is only available for these GitHub organizations",
     "Repository not found. @carlcsaposs-canonical",
     "Invalid git ref. @carlcsaposs-canonical",
     "Invalid path. @carlcsaposs-canonical",
     "'ccchub' string is not allowed",
     "Git ref already exists in charms.json. @carlcsaposs-canonical"}

Signalled(headers) ==
    \/ "retry-after" \in DOMAIN headers
    \/ /\ get(headers, "x-ratelimit-remaining", -1) = 0
       /\ "x-ratelimit-reset" \in DOMAIN headers

\* C31: the quota-reset and Retry-After branches do not depend on the
\* response code: whenever main() is about to attempt a request, a failure
\* response (403, 429 or 503 alike) that carries Retry-After, or
\* x-ratelimit-remaining = 0 with x-ratelimit-reset, is taken by the policy
\* as one to sleep on and retry, whatever its status.
C31_SignalRetriedWhateverStatus ==
    (pc \in {"create", "upload", "promote"} /\ call \in {"idle", "retry"}) =>
        \A status \in Statuses, headers \in HeaderSets(clock) :
            (status >= 400 /\ Signalled(headers)) =>
                is_retry(Policy, Request.method, status,
                         "retry-after" \in DOMAIN headers)


\* the organization of an entry: github_repository up to its first "/"
OrganizationOf(entry) ==
    LET repository == entry.github_repository
        slash == CHOOSE i \in DOMAIN repository :
                    repository[i] = "/" /\ \A j \in 1..(i - 1) : repository[j] # "/"
    IN  SubSeq(repository, 1, slash - 1)

\* canonical, juju, charmed-kubernetes
Organizations ==
    {Canonical, <<"j", "u", "j", "u">>,
     <<"c", "h", "a", "r", "m", "e", "d", "-">> \o <<"k", "u", "b", "e", "r", "n", "e", "t", "e", "s">>}

\* C32: every entry of charms.json is of canonical, juju or
\* charmed-kubernetes; a run that appends an entry was requested by an
\* author whose membership request was answered 204; a run answered 404 is
\* rejected (success=false) and a run answered anything else than 204 and
\* 404 ends with an uncaught exception and no output, and in both cases no
\* command is run (no gh repo view) and charms.json is left as it was.
C32_OnlyMembersAndAllowedOrganizations ==
    /\ [](module = "add_charm_branch" =>
            \A i \in DOMAIN charms_json : OrganizationOf(charms_json[i]) \in Organizations)
    /\ [][module = "add_charm_branch" =>
            /\ charms_json' # charms_json =>
                /\ issue'.status_code = 204
                /\ charms_json' = Append(charms_json, Requested')
                /\ issue'.body[1].organization \in Organizations
                /\ issue'.repository_exists
                /\ subprocesses'[1] = GhRepoView(Requested'.github_repository)
            /\ issue'.status_code = 404 =>
                /\ error' = ""
                /\ github_output' # None
                /\ github_output'[1][1] = <<"success", <<"false">> >>
                /\ subprocesses' = <<>>
                /\ charms_json' = charms_json
            /\ issue'.status_code \notin {204, 404} =>
                /\ error' \in {"HTTPError", "Exception"}
                /\ pc' = "aborted"
                /\ github_output' = None
                /\ subprocesses' = <<>>
                /\ charms_json' = charms_json]_vars

\* a member's request for juju/b was appended after the repository was
\* looked up
C32_Witness ==
    /\ module = "add_charm_branch"
    /\ issue # EmptyDict
    /\ issue.status_code = 204
    /\ fullmatch(issue.body)
    /\ charms_json # <<>>
    /\ charms_json[Len(charms_json)] = Requested
    /\ OrganizationOf(Requested) = <<"j", "u", "j", "u">>
    /\ subprocesses # <<>>
    /\ subprocesses[1] = GhRepoView(Requested.github_repository)
    /\ github_output # None
    /\ github_output[1][1] = <<"success", <<"true">> >>


\* the entry differs from the request in its ref only
OtherRefOf(entry, request) ==
    /\ entry.github_repository = request.github_repository
    /\ entry.relative_path_to_charmcraft_yaml = request.relative_path_to_charmcraft_yaml
    /\ entry.ref # request.ref

\* the run reached the membership test of charms.json: the author is a
\* member, the body is the form and the repository was found
Looked ==
    /\ issue.status_code = 204
    /\ fullmatch(issue.body)
    /\ issue.repository_exists

\* C33: charms.json never holds two entries equal in github_repository, ref
\* and relative_path_to_charmcraft_yaml.  A request of a member for an
\* existing repository that is equal to an entry is rejected with "Git ref
\* already exists in charms.json" and charms.json is left as it was; a
\* request with a valid ref that is equal to no entry and has the
\* repository and path of one (another ref only) is accepted and appended.
C33_NoDuplicateEntries ==
    /\ [](module = "add_charm_branch" =>
            \A i, j \in DOMAIN charms_json :
                charms_json[i] = charms_json[j] => i = j)
    /\ [][module = "add_charm_branch" =>
            /\ (Looked' /\ Requested' \in Range(charms_json)) =>
                /\ github_output' =
                    Some(<< <<"success", <<"false">> >>,
                            <<"error",
                              <<"Git ref already exists in charms.json. @carlcsaposs-canonical">> >> >>)
                /\ charms_json' = charms_json
            /\ (/\ Looked'
                /\ Requested' \notin Range(charms_json)
                /\ check_ref_format(Requested'.ref)
                /\ Requested'.ref # Ccchub
                /\ \E i \in DOMAIN charms_json : OtherRefOf(charms_json[i], Requested')) =>
                /\ charms_json' = Append(charms_json, Requested')
                /\ github_output' # None
                /\ github_output'[1][1] = <<"success", <<"true">> >>]_vars

\* canonical/a at dev was appended next to canonical/a at main, and the
\* request for canonical/a at main that followed was rejected as existing
C33_Witness ==
    /\ module = "add_charm_branch"
    /\ issue # EmptyDict
    /\ Looked
    /\ Len(charms_json) = 2
    /\ OtherRefOf(charms_json[1], charms_json[2])
    /\ Requested = charms_json[1]
    /\ github_output # None
    /\ github_output[1][2][2]
        = <<"Git ref already exists in charms.json. @carlcsaposs-canonical">>


\* the merge and the archive loop ran to their end: every index grouped,
\* bases/ emptied and removed, one archive written for every combined
\* directory under its name, and no exception but one of the tag step
MergedAndArchived ==
    /\ groups = charm_indexes(charm_refs, Len(charm_refs))
    /\ Pending(groups, bases) = <<>>
    /\ DOMAIN bases = {}
    /\ Unarchived = {}
    /\ \A d \in DOMAIN combined_bases :
        /\ archive_name(charm_refs, d) \in DOMAIN archived
        /\ archived[archive_name(charm_refs, d)] = [base |-> d, files |-> combined_bases[d]]
    /\ release_archives = DOMAIN archived
    /\ error \in {"", "CalledProcessError"}

\* git tag or git push has been run, or main() is at or past its requests
TagStepTaken ==
    \/ tag # "none"
    \/ subprocesses # <<>>
    \/ pc \in {"create", "upload", "promote", "done"}
    \/ calls # <<>>
    \/ release.exists

\* C35: release.py runs git tag and git push, and comes to its requests to
\* the release API, only after the merge and every archive creation ended
\* without an exception; an exception in the grouping, a copy, the check
\* that bases/ is empty or an archive creation ends the run there, with no
\* tag, no command run and no request made, and nothing runs after it.
C35_TagOnlyAfterMergeAndArchives ==
    /\ [](module = "release" => (TagStepTaken => MergedAndArchived))
    /\ []((module = "release" /\ pc = "aborted" /\ error \in {"AssertionError", "OSError"})
            => (NothingPublished /\ subprocesses = <<>>))
    /\ [][module = "release" =>
            /\ pc # "aborted"
            /\ (pc \in {"group", "merge", "archive"} /\ pc' = "aborted") =>
                (error' \in {"AssertionError", "OSError"} /\ ~TagStepTaken')]_vars

\* three entries were merged into two archives or more, and then the tag
\* was made and pushed
C35_Witness ==
    /\ module = "release"
    /\ Len(charm_refs) = 3
    /\ Cardinality(DOMAIN archived) >= 2
    /\ DOMAIN bases = {}
    /\ tag = "pushed"
    /\ pc = "create"
    /\ Len(subprocesses) = 2


\* the wheels the members of a group built for a base
Outputs(indexes, base) == {wheel \in Wheels : Holders(indexes, base, wheel) # {}}

\* C36: the combined directory of a group and a base, and the archive made
\* of it, hold the union of what the members of the group built for the
\* base: every wheel some member built is there, with the content of the
\* earliest-declared member that built it, so a wheel that only a
\* later-declared ref built is there with that ref's content; no other file
\* is there; and no copy takes a file out of a combined directory.
C36_MergedIsUnion ==
    /\ [](Merged =>
            \A k \in DOMAIN groups, base \in BaseNames :
                LET target == [index |-> min(groups[k].indexes), base |-> base]
                    outputs == Outputs(groups[k].indexes, base)
                IN  outputs # {} =>
                        /\ target \in DOMAIN combined_bases
                        /\ DOMAIN combined_bases[target] = outputs
                        /\ \A wheel \in outputs :
                            LET first == [index |-> Lowest(Holders(groups[k].indexes,
                                                                   base, wheel)),
                                          base |-> base]
                            IN  /\ combined_bases[target][wheel]
                                    = built[first][BaseSubdirectory][wheel]
                                /\ \A name \in DOMAIN archived :
                                    archived[name].base = target =>
                                        /\ DOMAIN archived[name].files = outputs
                                        /\ archived[name].files[wheel]
                                            = built[first][BaseSubdirectory][wheel])
    /\ [][module = "release" =>
            \A d \in DOMAIN combined_bases :
                /\ d \in DOMAIN combined_bases'
                /\ DOMAIN combined_bases[d] \subseteq DOMAIN combined_bases'[d]]_vars

\* the first entry built w1 and the second, of the same charm, w2 for the
\* same base: the archive holds w1 of the first and w2 of the second
C36_Witness ==
    /\ pc = "tag"
    /\ \E k \in DOMAIN groups, name \in DOMAIN archived :
        /\ groups[k].indexes[1] = 0
        /\ 1 \in Range(groups[k].indexes)
        /\ archived[name].base = [index |-> 0, base |-> <<"j">>]
        /\ Holders(groups[k].indexes, <<"j">>, "w1") = {0}
        /\ Holders(groups[k].indexes, <<"j">>, "w2") = {1}
        /\ archived[name].files = ("w1" :> 0) @@ ("w2" :> 1)


\* the response being slept on says the quota is used up, with a reset
\* timestamp that is not ahead of the clock
ResetPassed == QuotaExhausted /\ response.headers["x-ratelimit-reset"] <= clock

\* C38: no sleep is negative; a retried response with x-ratelimit-remaining
\* = 0 whose x-ratelimit-reset timestamp is already past is followed by one
\* sleep of 0 seconds, of the reset branch, and by the retry at the same
\* clock: neither the Retry-After sleep nor the 60 seconds are slept, also
\* when the response carries a Retry-After header.
C38_PastResetSleepsZero ==
    /\ [](\A i \in DOMAIN sleeps : sleeps[i].seconds >= 0)
    /\ [][(call = "sleep" /\ ResetPassed) =>
            /\ sleeps' = Append(sleeps, [branch |-> "reset", seconds |-> 0])
            /\ clock' = clock
            /\ call' = "retry"
            /\ pc' = pc
            /\ error' = ""]_vars

\* a 403 or 429 with the reset already past was slept on for 0 seconds and
\* the request is about to be sent again, the clock where it was
C38_Witness ==
    /\ call = "retry"
    /\ clock = 0
    /\ sleeps # <<>>
    /\ sleeps[Len(sleeps)] = [branch |-> "reset", seconds |-> 0]
    /\ retries["history"] # <<>>
    /\ retries["history"][Len(retries["history"])].status \in RateLimitStatuses


\* C34: check_labels.py sends the comment "Released to stable" only when
\* the issue it fetched carries the four required labels; when a label is
\* missing it raises ValueError with the missing labels, in the order of
\* the required list and no other, and sends no comment; when the issue is
\* not fetched (a status other than 200) it raises RuntimeError with no
\* label checked and no comment sent.
C34_CommentOnlyWithAllLabels ==
    /\ [](module = "check_labels" =>
            /\ posted # <<>> =>
                /\ posted = <<[issue |-> 60, body |-> "Released to stable"]>>
                /\ issue_data # None
                /\ \A label \in {"stable: Solutions QA tests passed",
                                 "stable: engineering manager approved",
                                 "stable: product manager approved",
                                 "stable: release notes curated"} :
                        label \in label_names(issue_data[1])
            /\ (pc = "aborted" /\ error = "ValueError") =>
                /\ posted = <<>>
                /\ missing # <<>>
                /\ \A i, j \in DOMAIN missing :
                    i < j => \E k, l \in DOMAIN required_labels :
                                /\ k < l
                                /\ required_labels[k] = missing[i]
                                /\ required_labels[l] = missing[j]
                /\ Range(missing) = Range(required_labels) \ label_names(issue_data[1])
            /\ issue_data = None => (posted = <<>> /\ missing = <<>> /\ pc # "done"))
    /\ [][(module = "check_labels" /\ pc = "fetch_issue" /\ issue_data' = None) =>
            (pc' = "aborted" /\ error' = "RuntimeError")]_vars
    /\ [][(module = "check_labels" /\ pc = "check_labels"
            /\ \E label \in Range(required_labels) : label \notin label_names(issue_data[1]))
            => (pc' = "aborted" /\ error' = "ValueError")]_vars

\* the issue lacks the first and the third required label: the error lists
\* the two in that order and nothing was sent
C34_Witness ==
    /\ module = "check_labels"
    /\ pc = "aborted"
    /\ error = "ValueError"
    /\ missing = <<"stable: Solutions QA tests passed", "stable: product manager approved">>
    /\ "bug" \in label_names(issue_data[1])
    /\ posted = <<>>


\* no reset_monitoring_password was called between the calls i and j
NoResetBetween(i, j) == \A k \in (i + 1)..(j - 1) : cos_calls[k].call # "reset"

\* C39: two calls of get_monitoring_password with no call of
\* reset_monitoring_password between them return the same password; a call
\* generates a password only when none is stored, and then stores the one
\* it returns; a call that finds one stored returns it and leaves it; the
\* first get after a reset generates a password and stores it.
C39_PasswordStableBetweenResets ==
    /\ [](module = "cos" =>
            /\ \A i, j \in DOMAIN cos_calls :
                (/\ i < j
                 /\ cos_calls[i].call = "get"
                 /\ cos_calls[j].call = "get"
                 /\ NoResetBetween(i, j))
                => (cos_calls[j].password = cos_calls[i].password /\ ~cos_calls[j].generated)
            /\ \A i \in DOMAIN cos_calls :
                (i > 1 /\ cos_calls[i].call = "get" /\ cos_calls[i - 1].call = "reset")
                => cos_calls[i].generated
            /\ (cos_calls # <<>> /\ cos_calls[Len(cos_calls)].call = "get")
                => monitoring_password = cos_calls[Len(cos_calls)].password
            /\ (cos_calls # <<>> /\ cos_calls[Len(cos_calls)].call = "reset")
                => monitoring_password = None)
    /\ [][(module = "cos" /\ cos_calls'[Len(cos_calls')].call = "get") =>
            /\ cos_calls'[Len(cos_calls')].generated = (monitoring_password = None)
            /\ monitoring_password # None => monitoring_password' = monitoring_password]_vars

\* get, get, reset, get: the first two calls return the one generated
\* password, the call after the reset generates again
C39_Witness ==
    /\ module = "cos"
    /\ Len(cos_calls) = 4
    /\ cos_calls[1] = [call |-> "get", password |-> Some("p1"), generated |-> TRUE]
    /\ cos_calls[2] = [call |-> "get", password |-> Some("p1"), generated |-> FALSE]
    /\ cos_calls[3].call = "reset"
    /\ cos_calls[4] = [call |-> "get", password |-> Some("p2"), generated |-> TRUE]
    /\ monitoring_password = Some("p2")


\* C40: the role name _build_application_database_dba_role returns has 32
\* characters at most, whatever the database name and however many roles
\* with the prefix exist.
C40_RoleNameWithinLimit ==
    (module = "mysql_shell" /\ role_name # None) => Len(role_name[1]) <= 32


\* "focal"
Focal == <<"f", "o", "c", "a", "l">>

\* C37: when the rename pass of a base is over no .whl file is left in
\* the cache, so every wheel of the cache was built by a pip install of the
\* base the loop is at; a step of the rename pass takes one wheel out of the
\* cache and puts it in the release directory under the series of the base
\* that built it (once out of the cache it is not met again); the rename
\* pass of the second base meets no wheel built for the first.
C37_EveryWheelRenamedInItsPass ==
    /\ [](module = "build" =>
            /\ DOMAIN built_for = pip_wheels
            /\ \A wheel \in pip_wheels : built_for[wheel] = ubuntu_base.series
            /\ pc \in {"pyenv", "renamed"} => pip_wheels = {})
    /\ [][(module = "build" /\ pc = "rename" /\ pc' # "aborted") =>
            \/ /\ pip_wheels = {}
               /\ pip_wheels' = {}
               /\ release_artifacts' = release_artifacts
               /\ pc' \in {"pyenv", "renamed"}
            \/ /\ pc' = "rename"
               /\ \E wheel \in pip_wheels :
                    /\ pip_wheels' = pip_wheels \ {wheel}
                    /\ renamed(wheel, built_for[wheel]) \in DOMAIN release_artifacts'
                    /\ release_artifacts'[renamed(wheel, built_for[wheel])]
                        = [parent |-> wheel.parent, name |-> wheel.name,
                           series |-> built_for[wheel]]
                    /\ \A artifact \in DOMAIN release_artifacts' :
                        artifact # renamed(wheel, built_for[wheel]) =>
                            /\ artifact \in DOMAIN release_artifacts
                            /\ release_artifacts'[artifact] = release_artifacts[artifact]]_vars

\* both passes are over: pip/wheels/s.whl was built and renamed in the pass
\* of focal and again in the pass of jammy, and the cache is empty
C37_Witness ==
    /\ module = "build"
    /\ pc = "renamed"
    /\ ubuntu_base = BASES[2]
    /\ pip_wheels = {}
    /\ renamed([parent |-> PipWheels, name |-> SWhl], Focal) \in DOMAIN release_artifacts
    /\ renamed([parent |-> PipWheels, name |-> SWhl], Jammy) \in DOMAIN release_artifacts
    /\ release_artifacts[renamed([parent |-> PipWheels, name |-> SWhl], Focal)].series = Focal
    /\ release_artifacts[renamed([parent |-> PipWheels, name |-> SWhl], Jammy)].series = Jammy

====
